---- MODULE Spec2Model ----
(***************************************************************************)
(* The local agentic tool-execution loop of tac-6/adws/adw_modules/        *)
(* local_agent.py: run_agent_loop, the extractor parse_tool_calls_from_text,*)
(* the dispatcher execute_tool with its six executors, and the caller      *)
(* prompt_local_agent with save_prompt / save_output.                      *)
(*                                                                         *)
(* Texts are modelled as sequences of segments.  A segment is a piece of   *)
(* assistant text in one of the textual conventions the extractor knows    *)
(* ("fence" = ```tool ... ```, "tag" = <tool_call>...</tool_call>, "bare" = *)
(* a JSON object outside any wrapper) or plain prose.  The body of a       *)
(* segment is the candidate JSON source together with what json.loads      *)
(* makes of it.                                                            *)
(***************************************************************************)
EXTENDS Integers, Sequences, FiniteSets, TLC

(***************************************************************************)
(* Bounds of the model.                                                    *)
(***************************************************************************)
\* largest max_iterations a run is started with
MaxIter == 3

\* the chat-completion capability is consulted at most this often in one
\* run of the model; it lies above every max_iterations, so the loop's own
\* bound is what stops a run
CallCap == MaxIter + 2

(***************************************************************************)
(* JSON values and tool-call arguments.                                    *)
(***************************************************************************)
\* an arguments mapping: `has' is the set of keys present, `nonstr' the
\* keys whose value is not a JSON string (a number, a list, ...)
NoArgs ==
    [has |-> {}, nonstr |-> {}, path |-> "", content |-> <<>>, old_string |-> <<>>,
     new_string |-> <<>>, command |-> "", pattern |-> "", file_pattern |-> ""]

PathArgs(p) == [NoArgs EXCEPT !.has = {"path"}, !.path = p]

WriteArgs(p, c) == [NoArgs EXCEPT !.has = {"path", "content"}, !.path = p, !.content = c]

EditArgs(p, old, new) ==
    [NoArgs EXCEPT !.has = {"path", "old_string", "new_string"},
                   !.path = p, !.old_string = old, !.new_string = new]

CommandArgs(c) == [NoArgs EXCEPT !.has = {"command"}, !.command = c]

PatternArgs(p) == [NoArgs EXCEPT !.has = {"pattern"}, !.pattern = p]

\* the same arguments with the value of key k replaced by a number
WrongType(args, k) == [args EXCEPT !.nonstr = @ \cup {k}]

\* A candidate JSON source and its parse.  json: "object", "array" (any
\* JSON value that is not an object) or "malformed" (json.loads raises).
\* p3: the source text matches the bare-object regular expression of
\* pattern 3.  keys: the top-level keys of an object.
JsonObject(keys, name, arguments, p3) ==
    [json |-> "object", keys |-> keys, name |-> name, arguments |-> arguments, p3 |-> p3]

\* {"name": name, "arguments": {...}} with a flat arguments object
Call(name, arguments) == JsonObject({"name", "arguments"}, name, arguments, TRUE)

JsonArray == [json |-> "array", keys |-> {}, name |-> "", arguments |-> NoArgs, p3 |-> FALSE]

Malformed == [json |-> "malformed", keys |-> {}, name |-> "", arguments |-> NoArgs, p3 |-> FALSE]

\* text the bare-object expression matches and json.loads rejects, such as
\* {"name": "bash", "arguments": {command}}
MalformedObject == [Malformed EXCEPT !.p3 = TRUE]

NoJson == [json |-> "none", keys |-> {}, name |-> "", arguments |-> NoArgs, p3 |-> FALSE]

(***************************************************************************)
(* Texts.                                                                  *)
(***************************************************************************)
Prose(words) == [conv |-> "prose", prose |-> words, body |-> NoJson]

Fence(body) == [conv |-> "fence", prose |-> "", body |-> body]

Tag(body) == [conv |-> "tag", prose |-> "", body |-> body]

Bare(body) == [conv |-> "bare", prose |-> "", body |-> body]

EmptyText == <<>>

(***************************************************************************)
(* The file system and the shell, as far as the executors see them.        *)
(***************************************************************************)
AbsPaths == {"/proj/a.txt", "/proj/missing.txt"}

\* os.path.isabs
IsAbs(path) == path \in AbsPaths

\* os.path.join(get_project_root(), path)
JoinRoot(path) ==
    CASE path = "a.txt" -> "/proj/a.txt"
      [] path = "missing.txt" -> "/proj/missing.txt"
      [] OTHER -> path

\* "Handle relative paths from project root"
ResolvePath(path) == IF IsAbs(path) THEN path ELSE JoinRoot(path)

NoFile == [exists |-> FALSE, content |-> <<>>]

File(content) == [exists |-> TRUE, content |-> content]

InitialFs == [p \in AbsPaths |-> IF p = "/proj/a.txt" THEN File(<<"x", "y", "x">>) ELSE NoFile]

\* the commands of the model that a pattern of the deny-list of tool_bash
\* matches; "ls" is the one that none matches
BlockedCommands == {"rm -rf /", "dd if=/dev/zero of=/dev/sda"}

\* what the environment does with one tool execution: how a spawned
\* process ends, and how many matches a search finds
BashOutcomes == {"silent", "output", "exit1", "exit2", "timeout"}

\* the CompletedProcess (or the TimeoutExpired) of subprocess.run
ProcessEnd(outcome) ==
    CASE outcome = "output" -> [code |-> 0, stdout |-> TRUE, stderr |-> FALSE, timedOut |-> FALSE]
      [] outcome = "exit1" -> [code |-> 1, stdout |-> FALSE, stderr |-> TRUE, timedOut |-> FALSE]
      [] outcome = "exit2" -> [code |-> 2, stdout |-> FALSE, stderr |-> FALSE, timedOut |-> FALSE]
      [] outcome = "timeout" -> [code |-> 0, stdout |-> FALSE, stderr |-> FALSE, timedOut |-> TRUE]
      [] OTHER -> [code |-> 0, stdout |-> FALSE, stderr |-> FALSE, timedOut |-> FALSE]

\* a process subprocess.run has spawned: the program, the exact command
\* string (or search pattern) handed to it, and how it ended
Process(program, command, end) == [program |-> program, command |-> command, end |-> end]

\* what the shell does to the files when it runs the command
ShellEffect(command, fs) ==
    IF command = "rm -rf /" THEN [p \in DOMAIN fs |-> NoFile] ELSE fs

\* relative_matches[:50]
GlobCap == 50

\* lines[:30]
GrepCap == 30

\* how many files or lines a search matches: none, a few, and numbers at
\* and above the two list limits
MatchCounts == {0, 2, GrepCap, GrepCap + 1, GlobCap, GlobCap + 1, GlobCap + 10}

ToolEnv == [bash : BashOutcomes, matches : MatchCounts]

\* the outcomes tried inside a run of the loop, which only passes the
\* result text on
LoopToolEnv == [bash : {"silent", "exit1", "timeout"}, matches : {0}]

(***************************************************************************)
(* Result texts of the executors.  kind names the sentence, arg the path,  *)
(* command, pattern or tool name it quotes, body the quoted file content,  *)
(* n and m the numbers it reports.                                         *)
(***************************************************************************)
ResultText(kind, arg, body, n, m) == [kind |-> kind, arg |-> arg, body |-> body, n |-> n, m |-> m]

NoResult == ResultText("none", "", <<>>, 0, 0)

\* the result texts that begin with "Error"
ErrorKinds ==
    {"file_not_found", "string_not_found", "string_ambiguous", "blocked",
     "timeout", "unknown_tool", "exception_text"}

IsErrorText(result) == result.kind \in ErrorKinds

Min(a, b) == IF a <= b THEN a ELSE b

(***************************************************************************)
(* str.count and str.replace of Python, on sequences of characters.       *)
(***************************************************************************)
RECURSIVE CountFrom(_, _, _)
\* non-overlapping occurrences of old in s from position i on
CountFrom(old, s, i) ==
    IF i + Len(old) - 1 > Len(s) THEN 0
    ELSE IF SubSeq(s, i, i + Len(old) - 1) = old
         THEN 1 + CountFrom(old, s, i + Len(old))
         ELSE CountFrom(old, s, i + 1)

\* content.count(old_string)
StrCount(old, s) == IF old = <<>> THEN Len(s) + 1 ELSE CountFrom(old, s, 1)

\* old_string in content
StrContains(old, s) ==
    \E i \in 1..(Len(s) + 1) : i + Len(old) - 1 <= Len(s) /\ SubSeq(s, i, i + Len(old) - 1) = old

RECURSIVE ReplaceFrom(_, _, _, _)
ReplaceFrom(old, new, s, i) ==
    IF i > Len(s) THEN <<>>
    ELSE IF i + Len(old) - 1 <= Len(s) /\ SubSeq(s, i, i + Len(old) - 1) = old
         THEN new \o ReplaceFrom(old, new, s, i + Len(old))
         ELSE <<s[i]>> \o ReplaceFrom(old, new, s, i + 1)

RECURSIVE Interleave(_, _, _)
Interleave(new, s, i) ==
    IF i > Len(s) THEN new ELSE new \o <<s[i]>> \o Interleave(new, s, i + 1)

StrReplace_OnlyNew(old, new, s) == new

\* content.replace(old_string, new_string)
StrReplace(old, new, s) ==
    IF old = <<>> THEN Interleave(new, s, 1) ELSE ReplaceFrom(old, new, s, 1)

(***************************************************************************)
(* The executors.  Each yields the result text, the file system it leaves  *)
(* and the processes it spawned, or raises.                                *)
(***************************************************************************)
Outcome(text, fs) ==
    [raised |-> FALSE, text |-> text, fs |-> fs, spawned |-> <<>>, matched |-> 0]

\* a search that found n files or lines
OutcomeOfSearch(text, fs, spawned, n) ==
    [raised |-> FALSE, text |-> text, fs |-> fs, spawned |-> spawned, matched |-> n]

\* an executor that ran a process
OutcomeOfProcess(text, fs, process) ==
    [raised |-> FALSE, text |-> text, fs |-> fs, spawned |-> <<process>>, matched |-> 0]

Raises(fs) ==
    [raised |-> TRUE, text |-> NoResult, fs |-> fs, spawned |-> <<>>, matched |-> 0]

FileExists(fs, p) == p \in DOMAIN fs /\ fs[p].exists

tool_read_file(path, fs) ==
    LET p == ResolvePath(path) IN
    IF FileExists(fs, p)
    THEN Outcome(ResultText("file_contents", p, fs[p].content, 0, 0), fs)
    ELSE Outcome(ResultText("file_not_found", p, <<>>, 0, 0), fs)

tool_write_file_NotFlushed(path, content, fs) ==
    Outcome(ResultText("wrote", ResolvePath(path), <<>>, 0, 0), fs)

\* the with block has closed the file by the time the function returns
tool_write_file(path, content, fs) ==
    LET p == ResolvePath(path) IN
    Outcome(ResultText("wrote", p, <<>>, 0, 0), [fs EXCEPT ![p] = File(content)])

tool_edit_file(path, old_string, new_string, fs) ==
    LET p == ResolvePath(path) IN
    IF ~FileExists(fs, p)
    THEN Outcome(ResultText("file_not_found", p, <<>>, 0, 0), fs)
    ELSE LET content == fs[p].content
             count == StrCount(old_string, content)
         IN  IF ~StrContains(old_string, content)
             THEN Outcome(ResultText("string_not_found", p, <<>>, 0, 0), fs)
             ELSE IF count > 1
             THEN Outcome(ResultText("string_ambiguous", p, <<>>, count, 0), fs)
             ELSE Outcome(ResultText("edited", p, <<>>, 0, 0),
                          [fs EXCEPT ![p] = File(StrReplace(old_string, new_string, content))])

Dangerous_DevicesOnly(command) == command = "dd if=/dev/zero of=/dev/sda"

\* re.search(pattern, command) for some pattern of dangerous_patterns
Dangerous(command) == command \in BlockedCommands

\* timeout=120
BashTimeout == 120

BashSections_CodeOnlyWhenSilent(end) ==
    (IF end.stdout THEN <<"stdout">> ELSE <<>>)
    \o (IF end.stderr THEN <<"stderr">> ELSE <<>>)
    \o (IF end.code # 0 /\ ~end.stdout /\ ~end.stderr THEN <<"exit_code">> ELSE <<>>)

\* the labelled sections of the output text of tool_bash, in order
BashSections(end) ==
    (IF end.stdout THEN <<"stdout">> ELSE <<>>)
    \o (IF end.stderr THEN <<"stderr">> ELSE <<>>)
    \o (IF end.code # 0 THEN <<"exit_code">> ELSE <<>>)

OnTimeout_Propagates(after, process) ==
    [raised |-> TRUE, text |-> NoResult, fs |-> after, spawned |-> <<process>>, matched |-> 0]

\* except subprocess.TimeoutExpired: return "Error: Command timed out after
\* 120 seconds"
OnTimeout(after, process) ==
    OutcomeOfProcess(ResultText("timeout", "", <<>>, BashTimeout, 0), after, process)

tool_bash(command, fs, env) ==
    IF Dangerous(command)
    THEN Outcome(ResultText("blocked", command, <<>>, 0, 0), fs)
    ELSE LET end == ProcessEnd(env.bash)
             process == Process("sh", command, end)
             after == ShellEffect(command, fs)
             output == BashSections(end)
         IN  IF end.timedOut
             THEN OnTimeout(after, process)
             ELSE IF output = <<>>
             THEN OutcomeOfProcess(ResultText("bash_no_output", "", <<>>, 0, 0), after, process)
             ELSE OutcomeOfProcess(ResultText("bash_output", "", output, end.code, 0),
                                   after, process)

tool_glob_search_ListsAll(pattern, fs, env) ==
    IF env.matches = 0
    THEN OutcomeOfSearch(ResultText("glob_none", pattern, <<>>, 0, 0), fs, <<>>, 0)
    ELSE OutcomeOfSearch(ResultText("glob_found", pattern, <<>>, env.matches, env.matches),
                         fs, <<>>, env.matches)

\* n of the result text is the number reported ("Found n files"), m the
\* number of paths listed
tool_glob_search(pattern, fs, env) ==
    IF env.matches = 0
    THEN OutcomeOfSearch(ResultText("glob_none", pattern, <<>>, 0, 0), fs, <<>>, 0)
    ELSE OutcomeOfSearch(
             ResultText("glob_found", pattern, <<>>, env.matches, Min(env.matches, GlobCap)),
             fs, <<>>, env.matches)

tool_grep_search(pattern, fs, env) ==
    LET process ==
            Process("grep", pattern,
                    [code |-> IF env.matches = 0 THEN 1 ELSE 0, stdout |-> env.matches # 0,
                     stderr |-> FALSE, timedOut |-> FALSE])
    IN  IF env.matches = 0
        THEN OutcomeOfSearch(ResultText("grep_none", pattern, <<>>, 0, 0), fs, <<process>>, 0)
        ELSE OutcomeOfSearch(
                 ResultText("grep_found", pattern, <<>>, env.matches, Min(env.matches, GrepCap)),
                 fs, <<process>>, env.matches)

\* the keys of tool_functions
ToolNames == {"read_file", "write_file", "edit_file", "bash", "glob_search", "grep_search"}

\* the keys each lambda of tool_functions subscripts (args[...]); a missing
\* one raises KeyError
Subscripted(name) ==
    CASE name = "read_file" -> {"path"}
      [] name = "write_file" -> {"path", "content"}
      [] name = "edit_file" -> {"path", "old_string", "new_string"}
      [] name = "bash" -> {"command"}
      [] name = "glob_search" -> {"pattern"}
      [] name = "grep_search" -> {"pattern"}
      [] OTHER -> {}

\* An executor called with a value that is not a string.  tool_bash hands
\* it to re.search before its try block, so the TypeError leaves it; the
\* other executors raise inside their try block and return the text of
\* their except clause.  tool_write_file has opened (and so emptied) the
\* file by the time f.write rejects the content.
CalledWithWrongType(name, args, fs) ==
    LET text == ResultText("exception_text", name, <<>>, 0, 0) IN
    IF name = "bash" THEN Raises(fs)
    ELSE IF name = "write_file" /\ "path" \notin args.nonstr
    THEN Outcome(text, [fs EXCEPT ![ResolvePath(args.path)] = File(<<>>)])
    ELSE Outcome(text, fs)

execute_tool(name, args, fs, env) ==
    IF name \notin ToolNames
    THEN Outcome(ResultText("unknown_tool", name, <<>>, 0, 0), fs)
    ELSE IF ~(Subscripted(name) \subseteq args.has)
    THEN Raises(fs)
    ELSE IF Subscripted(name) \cap args.nonstr # {}
    THEN CalledWithWrongType(name, args, fs)
    ELSE CASE name = "read_file" -> tool_read_file(args.path, fs)
           [] name = "write_file" -> tool_write_file(args.path, args.content, fs)
           [] name = "edit_file" ->
                tool_edit_file(args.path, args.old_string, args.new_string, fs)
           [] name = "bash" -> tool_bash(args.command, fs, env)
           [] name = "glob_search" -> tool_glob_search(args.pattern, fs, env)
           [] OTHER -> tool_grep_search(args.pattern, fs, env)

(***************************************************************************)
(* The extractor.                                                          *)
(***************************************************************************)
\* the value json.loads returns for a candidate
Value(body) ==
    [json |-> body.json, keys |-> body.keys, name |-> body.name, arguments |-> body.arguments]

IsFenceSegment(seg) == seg.conv = "fence"

IsTagSegment(seg) == seg.conv = "tag"

IsBareCandidate(seg) == seg.body.p3

OnDecodeError_Abandon(rest) == <<>>

\* except json.JSONDecodeError: continue -- the loop goes on to the matches
\* that are left
OnDecodeError(rest) == rest

RECURSIVE LoadAll(_)
\* json.loads on every match in turn; a JSONDecodeError skips the match
LoadAll(segs) ==
    IF segs = <<>> THEN <<>>
    ELSE IF Head(segs).body.json = "malformed"
         THEN OnDecodeError(LoadAll(Tail(segs)))
         ELSE <<Value(Head(segs).body)>> \o LoadAll(Tail(segs))

InSeq(x, s) == \E i \in 1..Len(s) : s[i] = x

AlreadyFound_Never(data, tool_calls) == FALSE

\* "data not in tool_calls" is false: the list holds an equal dictionary
AlreadyFound(data, tool_calls) == InSeq(data, tool_calls)

RECURSIVE LoadBare(_, _)
\* pattern 3: name and arguments keys required, duplicates avoided
LoadBare(segs, tool_calls) ==
    IF segs = <<>> THEN tool_calls
    ELSE LET b == Head(segs).body
             data == Value(b)
         IN  IF b.json = "malformed"
             THEN LoadBare(Tail(segs), tool_calls)
             ELSE IF "name" \in data.keys /\ "arguments" \in data.keys
                     /\ ~AlreadyFound(data, tool_calls)
             THEN LoadBare(Tail(segs), Append(tool_calls, data))
             ELSE LoadBare(Tail(segs), tool_calls)

parse_tool_calls_from_text(text) ==
    LET blocks == LoadAll(SelectSeq(text, IsFenceSegment))
        tags == LoadAll(SelectSeq(text, IsTagSegment))
    IN  LoadBare(SelectSeq(text, IsBareCandidate), blocks \o tags)

(***************************************************************************)
(* Messages.  A message dictionary is a record with every key present:     *)
(* text is the content of a system, user-prompt or assistant message,      *)
(* result the content of a tool-role message, results the tool results a   *)
(* synthetic user message quotes.                                          *)
(***************************************************************************)
Msg(role, name, text, result, results) ==
    [role |-> role, name |-> name, text |-> text, result |-> result, results |-> results]

SystemPrompt == <<Prose("You are a helpful AI coding assistant ...")>>

SystemMsg == Msg("system", "", SystemPrompt, NoResult, <<>>)

UserMsg(prompt) == Msg("user", "", prompt, NoResult, <<>>)

AssistantMsg(content) == Msg("assistant", "", content, NoResult, <<>>)

\* {"role": "tool", "name": tool_name, "content": tool_result}
ToolMsg(tool_name, tool_result) == Msg("tool", tool_name, EmptyText, tool_result, <<>>)

\* f"**{tool_name}** result:\n{tool_result}"
ToolResultEntry(tool_name, tool_result) == [name |-> tool_name, result |-> tool_result]

ResultsMsg_WithoutErrors(tool_results) ==
    Msg("user", "", EmptyText, NoResult,
        SelectSeq(tool_results, LAMBDA r : ~IsErrorText(r.result)))

\* "Tool results:\n\n" + "\n\n".join(tool_results) + "\n\nContinue with your task. ..."
ResultsMsg(tool_results) == Msg("user", "", EmptyText, NoResult, tool_results)

(***************************************************************************)
(* What the callers pass in and what the model may answer.                 *)
(***************************************************************************)
Prompt == <<Prose("/implement the plan")>>

AdwId == "adw-1"

\* f"Error in agent loop: {e}"
ErrorInAgentLoop == <<Prose("Error in agent loop: Ollama API error")>>

\* f"Error executing local agent: {e}"
ErrorExecutingAgent == <<Prose("Error executing local agent")>>

\* the texts check_ollama_installed and the failed pull produce
OllamaDownText == <<Prose("Error: Cannot connect to Ollama")>>

PullFailedText == <<Prose("Model not available and pull failed")>>

TextAnswer == <<Prose("The answer is 42.")>>

TextRead == <<Prose("Let me read it."), Fence(Call("read_file", PathArgs("a.txt")))>>

TextReadMissing == <<Fence(Call("read_file", PathArgs("missing.txt")))>>

TextWriteRead ==
    <<Fence(Call("write_file", WriteArgs("a.txt", <<"z">>))),
      Tag(Call("read_file", PathArgs("/proj/a.txt")))>>

\* a file that does not exist yet is written and read back
TextWriteReadNew ==
    <<Fence(Call("write_file", WriteArgs("missing.txt", <<"x", "y">>))),
      Fence(Call("read_file", PathArgs("missing.txt")))>>

TextBash == <<Bare(Call("bash", CommandArgs("ls")))>>

\* "x" occurs twice in /proj/a.txt
TextEditAmbiguous == <<Tag(Call("edit_file", EditArgs("a.txt", <<"x">>, <<"z">>)))>>

TextBlocked == <<Tag(Call("bash", CommandArgs("rm -rf /")))>>

TextUnknown == <<Tag(Call("deploy", NoArgs))>>

TextNoArg == <<Fence(Call("read_file", NoArgs))>>

\* {"name": "bash", "arguments": {"command": 123}}
TextBashWrongType == <<Fence(Call("bash", WrongType(CommandArgs("ls"), "command")))>>

TextArray == <<Fence(JsonArray)>>

TextMalformed == <<Prose("Done:"), Fence(Malformed)>>

\* the contents a chat-completion response may carry
Responses ==
    {TextAnswer, EmptyText, ErrorInAgentLoop, TextMalformed,
     TextRead, TextReadMissing, TextWriteRead, TextWriteReadNew, TextBash, TextBlocked,
     TextUnknown,
     TextNoArg, TextArray, TextBashWrongType, TextEditAmbiguous}

(***************************************************************************)
(* State.                                                                  *)
(***************************************************************************)
VARIABLES
    entry,           \* the function the caller invoked
    phase,           \* "called", "running", "returned"
    pc,              \* where run_agent_loop is
    max_iterations,
    iteration,
    messages,        \* the history sent to the model
    all_messages,    \* the transcript run_agent_loop returns
    final_response,
    tool_calls,      \* the calls extracted in the current turn
    tool_idx,        \* the position of the for loop in tool_calls
    tool_results,
    fs,              \* the files under the project root
    result,          \* what the caller got back
    transcript,      \* the files save_output wrote
    promptSaved,     \* save_prompt wrote the prompt file
    chatCalls,       \* number of chat_with_ollama calls of the run
    execLog,         \* the execute_tool calls of the run, in order
    prev,            \* how the caller's previous run ended and what it returned
    outstanding,     \* the calls the loop has made that have not come back
    lastSent,        \* the history handed to the latest chat-completion call
    runs,            \* the locals of each of several concurrent run_agent_loop calls
    pipeline,        \* adw_sdlc.py: the phases started and their exit codes
    routing          \* generate_sql: the request, the environment and the calls made

vars ==
    <<entry, phase, pc, max_iterations, iteration, messages, all_messages,
      final_response, tool_calls, tool_idx, tool_results, fs, result, transcript,
      promptSaved, chatCalls, execLog, prev, outstanding, lastSent, runs, pipeline,
      routing>>

loopVars ==
    <<pc, iteration, messages, all_messages, final_response, tool_calls, tool_idx,
      tool_results, fs, chatCalls, execLog, outstanding, lastSent>>

TerminalStates == {"Done", "Truncated", "TransportFailure"}

\* the default of max_iterations (20), which prompt_local_agent runs with,
\* stands at the largest value the model runs
DefaultMaxIterations == MaxIter

NoOutcome == [kind |-> "none", success |-> FALSE, output |-> EmptyText, session |-> "", messages |-> <<>>]

\* (final_response, all_messages) as returned by run_agent_loop
TupleOutcome(answer, msgs) ==
    [kind |-> "tuple", success |-> TRUE, output |-> answer, session |-> "", messages |-> msgs]

\* an exception leaves run_agent_loop
ExceptionOutcome ==
    [kind |-> "exception", success |-> FALSE, output |-> EmptyText, session |-> "", messages |-> <<>>]

AgentPromptResponse(output, success, session_id) ==
    [kind |-> "response", success |-> success, output |-> output, session |-> session_id,
     messages |-> <<>>]

\* A path is the sequence of the pieces of its directory and of its file
\* name; ".jsonl" is a piece of its own wherever the string holds it.
Path(dir, name) == [dir |-> dir, name |-> name]

\* os.path.join(output_dir, "raw_output.jsonl") in execute_template
OutputFile == Path(<<"agents/adw-1/ops">>, <<"raw_output", ".jsonl">>)

\* the output paths a caller of save_output may pass
OutputPaths ==
    {OutputFile, Path(<<>>, <<"out", ".json">>), Path(<<>>, <<"out", ".txt">>),
     Path(<<"runs", ".jsonl">>, <<"out", ".jsonl">>)}

\* s.replace(".jsonl", ".json") on the pieces of a string
ReplaceJsonl(pieces) ==
    [i \in 1..Len(pieces) |-> IF pieces[i] = ".jsonl" THEN ".json" ELSE pieces[i]]

\* json_file = output_file.replace(".jsonl", ".json")
JsonFile(output_file) == Path(ReplaceJsonl(output_file.dir), ReplaceJsonl(output_file.name))

DiskPaths == OutputPaths \cup {JsonFile(path) : path \in OutputPaths}

NoDiskFile == [exists |-> FALSE, format |-> "", messages |-> <<>>]

\* for msg in messages: f.write(json.dumps(msg) + "\n")
JsonLines(msgs) == [exists |-> TRUE, format |-> "jsonl", messages |-> msgs]

\* json.dump(messages, f, indent=2)
JsonDocument(msgs) == [exists |-> TRUE, format |-> "json", messages |-> msgs]

\* the messages a file holds in the given format
ReadBack(file, format) ==
    IF file.exists /\ file.format = format THEN file.messages ELSE <<>>

\* the transcript files: the path save_output is given, the files on disk,
\* the messages read back from the line-delimited file and from the JSON
\* array file, how many times save_output has run and whether it raised
NoTranscript ==
    [saved |-> FALSE, raised |-> FALSE, calls |-> 0, path |-> OutputFile,
     files |-> [path \in DiskPaths |-> NoDiskFile], jsonl |-> <<>>, json |-> <<>>]

\* save_output: makedirs for the directory of output_file, the
\* line-delimited file at output_file, then the array at json_file, whose
\* open raises when its directory is not the one just made
save_output(msgs, output_file) ==
    LET json_file == JsonFile(output_file)
        first == [transcript.files EXCEPT ![output_file] = JsonLines(msgs)]
        opened == json_file.dir = output_file.dir
        second == IF opened THEN [first EXCEPT ![json_file] = JsonDocument(msgs)] ELSE first
    IN  [saved |-> TRUE, raised |-> ~opened, calls |-> transcript.calls + 1,
         path |-> output_file, files |-> second,
         jsonl |-> ReadBack(second[output_file], "jsonl"),
         json |-> ReadBack(second[json_file], "json")]

SavesTranscript_OnlyWhenDone(state) == state = "Done"

\* prompt_local_agent calls save_output after every run_agent_loop that
\* returned its tuple
SavesTranscript(state) == state \in TerminalStates

\* re.match(r"^(/\w+)", prompt) in save_prompt
IsSlashCommand(prompt) == prompt = Prompt

LoopHead_OffByOne(n, max) == IF n <= max THEN "AwaitingModel" ELSE "Truncated"

\* for iteration in range(max_iterations): the loop is entered while the
\* counter is below the cap and left otherwise
LoopHead(n, max) == IF n < max THEN "AwaitingModel" ELSE "Truncated"

AfterChatError_Retry == "AwaitingModel"

\* except Exception as e: return f"Error in agent loop: {e}", all_messages
AfterChatError == "TransportFailure"

AppendMessage_Window(history, msg) ==
    IF Len(history) >= 4 THEN Append(Tail(history), msg) ELSE Append(history, msg)

\* messages.append / all_messages.append
AppendMessage(history, msg) == Append(history, msg)

LoopAnswer_Unassigned == IF pc = "TransportFailure" THEN ErrorInAgentLoop ELSE EmptyText

\* the first element of the tuple run_agent_loop returns
LoopAnswer == IF pc = "TransportFailure" THEN ErrorInAgentLoop ELSE final_response

\* adw_sdlc.py has not been started
NoPipeline ==
    [at |-> "idle", argc |-> 0, adw_id |-> "", started |-> <<>>, commands |-> <<>>,
     codes |-> <<>>, exit |-> 0]

\* generate_sql has not been called
NoRouting == [at |-> "idle"]

NoPrevious == [entry |-> "", terminal |-> "", success |-> FALSE, output |-> EmptyText]

Init ==
    /\ entry \in {"prompt_local_agent", "run_agent_loop"}
    /\ phase = "called"
    /\ pc = "NotStarted"
    /\ max_iterations \in 0..MaxIter
    /\ entry = "prompt_local_agent" => max_iterations = DefaultMaxIterations
    /\ iteration = 0
    /\ messages = <<>>
    /\ all_messages = <<>>
    /\ final_response = EmptyText
    /\ tool_calls = <<>>
    /\ tool_idx = 0
    /\ tool_results = <<>>
    /\ fs = InitialFs
    /\ result = NoOutcome
    /\ transcript = NoTranscript
    /\ promptSaved = FALSE
    /\ chatCalls = 0
    /\ execLog = <<>>
    /\ prev = NoPrevious
    /\ outstanding = <<>>
    /\ lastSent = <<>>
    /\ runs = <<>>
    /\ pipeline = NoPipeline
    /\ routing = NoRouting

InitialHistory_PromptOnly(prompt) == <<UserMsg(prompt)>>

\* messages = [{"role": "system", ...}, {"role": "user", "content": prompt}]
InitialHistory(prompt) == <<SystemMsg, UserMsg(prompt)>>

\* lines 517-525: the initial history and the first test of the loop
EnterLoop ==
    /\ messages' = InitialHistory(Prompt)
    /\ all_messages' = <<>>
    /\ final_response' = EmptyText
    /\ iteration' = 0
    /\ pc' = LoopHead(0, max_iterations)
    /\ phase' = "running"
    /\ UNCHANGED <<tool_calls, tool_idx, tool_results, fs, chatCalls, execLog,
                   outstanding, lastSent>>

\* the caller (test_local_agent.main) calls run_agent_loop itself
CallRunAgentLoop ==
    /\ entry = "run_agent_loop"
    /\ phase = "called"
    /\ EnterLoop
    /\ UNCHANGED <<pipeline, routing, runs, entry, max_iterations, result, transcript, promptSaved, prev>>

CheckFailed_WithSession(error_msg) == AgentPromptResponse(error_msg, FALSE, AdwId)

\* return AgentPromptResponse(output=error_msg, success=False, session_id=None)
CheckFailed(error_msg) == AgentPromptResponse(error_msg, FALSE, "")

\* prompt_local_agent up to its call of run_agent_loop
CallPromptLocalAgent ==
    /\ entry = "prompt_local_agent"
    /\ phase = "called"
    /\ \E check \in {"ok", "pulled", "ollama_down", "pull_failed"} :
          IF check \in {"ollama_down", "pull_failed"}
          THEN /\ result' = CheckFailed(IF check = "ollama_down" THEN OllamaDownText
                                          ELSE PullFailedText)
               /\ phase' = "returned"
               /\ UNCHANGED <<promptSaved, loopVars>>
          ELSE /\ promptSaved' = IsSlashCommand(Prompt)
               /\ EnterLoop
               /\ UNCHANGED result
    /\ UNCHANGED <<pipeline, routing, runs, entry, max_iterations, transcript, prev>>

\* a call the loop has made and is waiting for
Operation(kind, idx) == [kind |-> kind, idx |-> idx]

Blocked_FireAndForget == FALSE

\* chat_with_ollama, execute_tool and the executors are plain synchronous
\* calls: the loop runs no statement between a call and its return
Blocked == outstanding # <<>>

\* the loop calls chat_with_ollama(messages, model, TOOLS)
StartChat ==
    /\ phase = "running"
    /\ pc = "AwaitingModel"
    /\ ~Blocked
    /\ chatCalls < CallCap
    /\ Len(outstanding) < CallCap
    /\ outstanding' = Append(outstanding, Operation("chat", chatCalls + 1))
    /\ lastSent' = messages
    /\ UNCHANGED <<pipeline, routing, runs, entry, phase, pc, max_iterations, iteration, messages, all_messages,
                   final_response, tool_calls, tool_idx, tool_results, fs, result,
                   transcript, promptSaved, chatCalls, execLog, prev>>

\* one chat_with_ollama call that returns, and the loop body up to the
\* first tool call
ChatOk ==
    /\ phase = "running"
    /\ pc = "AwaitingModel"
    /\ chatCalls < CallCap
    /\ outstanding # <<>>
    /\ Head(outstanding).kind = "chat"
    /\ outstanding' = Tail(outstanding)
    /\ \E content \in Responses :
          LET calls == parse_tool_calls_from_text(content) IN
          /\ chatCalls' = chatCalls + 1
          /\ all_messages' = AppendMessage(all_messages, AssistantMsg(content))
          /\ IF calls = <<>>
             THEN /\ final_response' = content
                  /\ pc' = "Done"
                  /\ UNCHANGED <<messages, tool_calls, tool_idx, tool_results>>
             ELSE /\ messages' = AppendMessage(messages, AssistantMsg(content))
                  /\ tool_calls' = calls
                  /\ tool_idx' = 1
                  /\ tool_results' = <<>>
                  /\ pc' = "DispatchingTools"
                  /\ UNCHANGED final_response
    /\ UNCHANGED <<pipeline, routing, runs, entry, phase, max_iterations, iteration, fs, result, transcript,
                   promptSaved, execLog, prev, lastSent>>

OnChatError_Cleared(recorded) == <<>>

\* except Exception as e: return f"Error in agent loop: {e}", all_messages
\* -- the list is handed out as it stands
OnChatError(recorded) == recorded

\* one chat_with_ollama call that raises
ChatFail ==
    /\ phase = "running"
    /\ pc = "AwaitingModel"
    /\ chatCalls < CallCap
    /\ outstanding # <<>>
    /\ Head(outstanding).kind = "chat"
    /\ outstanding' = Tail(outstanding)
    /\ chatCalls' = chatCalls + 1
    /\ pc' = AfterChatError
    /\ all_messages' = OnChatError(all_messages)
    /\ UNCHANGED <<pipeline, routing, runs, entry, phase, max_iterations, iteration, messages,
                   final_response, tool_calls, tool_idx, tool_results, fs, result,
                   transcript, promptSaved, execLog, prev, lastSent>>

\* tool_call.get on a value that is not a dictionary raises AttributeError
HasGet(tool_call) == tool_call.json = "object"

\* tool_call.get("name", "")
GetName(tool_call) == IF "name" \in tool_call.keys THEN tool_call.name ELSE ""

\* tool_call.get("arguments", {})
GetArguments(tool_call) ==
    IF "arguments" \in tool_call.keys THEN tool_call.arguments ELSE NoArgs

CurrentCall_Reversed(calls, idx) == calls[Len(calls) - idx + 1]

\* the call the for loop over tool_calls is at
CurrentCall(calls, idx) == calls[idx]

\* one execute_tool call: what it was given, the files before and after,
\* the processes it spawned, and the text it returned (or that it raised)
LogEntry(call, name, before, out) ==
    [call |-> call, name |-> name, result |-> out.text, raised |-> out.raised,
     before |-> before, after |-> out.fs, spawned |-> out.spawned, matched |-> out.matched]

LastPass_EveryPass(calls, idx) == TRUE

\* this pass of the for loop over tool_calls is the last one: the
\* statements after the loop come next
LastPass(calls, idx) == idx = Len(calls)

\* the loop calls execute_tool(tool_name, tool_args) for the call it is at
StartTool ==
    /\ phase = "running"
    /\ pc = "DispatchingTools"
    /\ ~Blocked
    /\ Len(outstanding) < CallCap
    /\ HasGet(CurrentCall(tool_calls, tool_idx))
    /\ outstanding' = Append(outstanding, Operation("tool", tool_idx))
    /\ UNCHANGED <<pipeline, routing, runs, entry, phase, pc, max_iterations, iteration, messages, all_messages,
                   final_response, tool_calls, tool_idx, tool_results, fs, result,
                   transcript, promptSaved, chatCalls, execLog, prev, lastSent>>

\* one pass of the for loop over tool_calls, from the return of
\* execute_tool on (or from the .get that raises); after the last pass the
\* results message is appended and the outer loop goes to its next test
DispatchTool ==
    /\ phase = "running"
    /\ pc = "DispatchingTools"
    /\ IF HasGet(CurrentCall(tool_calls, tool_idx))
       THEN /\ outstanding # <<>>
            /\ Head(outstanding).kind = "tool"
            /\ outstanding' = Tail(outstanding)
       ELSE /\ ~Blocked
            /\ UNCHANGED outstanding
    /\ \E env \in LoopToolEnv :
          LET tool_call == CurrentCall(tool_calls, tool_idx)
              tool_name == GetName(tool_call)
              out == execute_tool(tool_name, GetArguments(tool_call), fs, env)
          IN  IF ~HasGet(tool_call) \/ out.raised
              THEN /\ pc' = "Raised"
                   /\ UNCHANGED <<iteration, messages, all_messages, tool_idx,
                                  tool_results, fs, execLog>>
              ELSE /\ fs' = out.fs
                   /\ execLog' = Append(execLog, LogEntry(tool_call, tool_name, fs, out))
                   /\ tool_results' = Append(tool_results, ToolResultEntry(tool_name, out.text))
                   /\ all_messages' = AppendMessage(all_messages, ToolMsg(tool_name, out.text))
                   /\ IF LastPass(tool_calls, tool_idx)
                      THEN /\ messages' = AppendMessage(messages, ResultsMsg(tool_results'))
                           /\ iteration' = iteration + 1
                           /\ pc' = LoopHead(iteration + 1, max_iterations)
                           /\ UNCHANGED tool_idx
                      ELSE /\ tool_idx' = tool_idx + 1
                           /\ UNCHANGED <<messages, iteration, pc>>
    /\ UNCHANGED <<pipeline, routing, runs, entry, phase, max_iterations, final_response, tool_calls, result,
                   transcript, promptSaved, chatCalls, prev, lastSent>>

\* run_agent_loop hands its tuple (or its exception) to the caller;
\* prompt_local_agent saves the transcript and builds its response
Return ==
    /\ phase = "running"
    /\ pc \in TerminalStates \cup {"Raised"}
    /\ phase' = "returned"
    /\ IF entry = "run_agent_loop"
       THEN /\ result' = IF pc = "Raised" THEN ExceptionOutcome
                         ELSE TupleOutcome(LoopAnswer, all_messages)
            /\ UNCHANGED transcript
       ELSE IF pc = "Raised"
            THEN /\ result' = AgentPromptResponse(ErrorExecutingAgent, FALSE, "")
                 /\ UNCHANGED transcript
            ELSE /\ transcript' = IF SavesTranscript(pc)
                                   THEN save_output(all_messages, transcript.path)
                                   ELSE transcript
                 /\ result' = IF transcript'.raised
                               THEN AgentPromptResponse(ErrorExecutingAgent, FALSE, "")
                               ELSE AgentPromptResponse(LoopAnswer, TRUE, AdwId)
    /\ UNCHANGED <<pipeline, routing, runs, entry, max_iterations, promptSaved, loopVars, prev>>

Next ==
    \/ CallRunAgentLoop
    \/ CallPromptLocalAgent
    \/ StartChat
    \/ ChatOk
    \/ ChatFail
    \/ StartTool
    \/ DispatchTool
    \/ Return

Spec == Init /\ [][Next]_vars

\* The caller invokes the agent a second time after the first run has
\* returned (the workflow scripts run one agent per phase); the files
\* written by the first run are still there.
CallAgain ==
    /\ phase = "returned"
    /\ prev = NoPrevious
    /\ prev' = [entry |-> entry, terminal |-> pc, success |-> result.success,
                output |-> result.output]
    /\ entry' \in {"prompt_local_agent", "run_agent_loop"}
    /\ max_iterations' \in 0..MaxIter
    /\ entry' = "prompt_local_agent" => max_iterations' = DefaultMaxIterations
    /\ phase' = "called"
    /\ pc' = "NotStarted"
    /\ iteration' = 0
    /\ messages' = <<>>
    /\ all_messages' = <<>>
    /\ final_response' = EmptyText
    /\ tool_calls' = <<>>
    /\ tool_idx' = 0
    /\ tool_results' = <<>>
    /\ result' = NoOutcome
    /\ transcript' = NoTranscript
    /\ promptSaved' = FALSE
    /\ chatCalls' = 0
    /\ execLog' = <<>>
    /\ outstanding' = <<>>
    /\ lastSent' = <<>>
    /\ UNCHANGED <<fs, runs, pipeline, routing>>

NextRuns == Next \/ CallAgain

SpecRuns == Init /\ [][NextRuns]_vars

\* the process keeps running: a step that can be taken is taken
FairSpec == Spec /\ WF_vars(Next)

(***************************************************************************)
(* execute_tool on its own: one call with any name and any arguments, on   *)
(* any of a few file contents.                                             *)
(***************************************************************************)
\* the longest file content and search string tried
MaxLen == 3

Letters == {"x", "y"}

Strings(n) == UNION {[1..k -> Letters] : k \in 0..n}

\* contents of /proj/a.txt before the call; /proj/missing.txt does not exist
FileSystems ==
    {[p \in AbsPaths |-> IF p = "/proj/a.txt" THEN File(c) ELSE NoFile] : c \in Strings(MaxLen)}

CallNames == ToolNames \cup {"deploy", ""}

CallArguments ==
    {NoArgs, PathArgs("a.txt"), PathArgs("/proj/missing.txt"),
     WrongType(PathArgs("a.txt"), "path"),
     WriteArgs("a.txt", <<"z">>), WriteArgs("missing.txt", <<>>),
     WrongType(WriteArgs("a.txt", <<"z">>), "content"),
     CommandArgs("ls"), CommandArgs("rm -rf /"), CommandArgs("dd if=/dev/zero of=/dev/sda"),
     WrongType(CommandArgs("ls"), "command"), PatternArgs("*.py")}
    \cup {EditArgs("a.txt", old, <<"z">>) : old \in Strings(MaxLen - 1)}
    \cup {EditArgs("missing.txt", <<"x">>, <<"z">>),
          WrongType(EditArgs("a.txt", <<"x">>, <<"z">>), "old_string")}

InitTools ==
    /\ entry = "execute_tool"
    /\ phase = "called"
    /\ pc = "NotStarted"
    /\ max_iterations = 0
    /\ iteration = 0
    /\ messages = <<>>
    /\ all_messages = <<>>
    /\ final_response = EmptyText
    /\ tool_calls \in {<<Value(Call(name, arguments))>> :
                          name \in CallNames, arguments \in CallArguments}
    /\ tool_idx = 1
    /\ tool_results = <<>>
    /\ fs \in FileSystems
    /\ result = NoOutcome
    /\ transcript = NoTranscript
    /\ promptSaved = FALSE
    /\ chatCalls = 0
    /\ execLog = <<>>
    /\ prev = NoPrevious
    /\ outstanding = <<>>
    /\ lastSent = <<>>
    /\ runs = <<>>
    /\ pipeline = NoPipeline
    /\ routing = NoRouting

\* execute_tool(name, arguments), to its return or its exception
CallExecuteTool ==
    /\ entry = "execute_tool"
    /\ phase = "called"
    /\ \E env \in ToolEnv :
          LET tool_call == CurrentCall(tool_calls, tool_idx)
              out == execute_tool(tool_call.name, tool_call.arguments, fs, env)
          IN  /\ fs' = out.fs
              /\ execLog' = <<LogEntry(tool_call, tool_call.name, fs, out)>>
    /\ phase' = "returned"
    /\ UNCHANGED <<pipeline, routing, runs, entry, pc, max_iterations, iteration, messages, all_messages,
                   final_response, tool_calls, tool_idx, tool_results, result, transcript,
                   promptSaved, chatCalls, prev, outstanding, lastSent>>

NextTools == CallExecuteTool

SpecTools == InitTools /\ [][NextTools]_vars

(***************************************************************************)
(* save_output on its own: one call with any of a few message lists and    *)
(* output paths, on an empty directory.                                    *)
(***************************************************************************)
\* the longest message list saved
MaxMessages == 3

SampleMessages ==
    {AssistantMsg(TextRead), AssistantMsg(TextAnswer),
     ToolMsg("read_file", ResultText("file_contents", "/proj/a.txt", <<"x", "y", "x">>, 0, 0))}

MessageLists == UNION {[1..k -> SampleMessages] : k \in 0..MaxMessages}

InitSave ==
    /\ entry = "save_output"
    /\ phase = "called"
    /\ pc = "NotStarted"
    /\ max_iterations = 0
    /\ iteration = 0
    /\ messages = <<>>
    /\ all_messages \in MessageLists
    /\ final_response = EmptyText
    /\ tool_calls = <<>>
    /\ tool_idx = 0
    /\ tool_results = <<>>
    /\ fs = InitialFs
    /\ result = NoOutcome
    /\ transcript \in {[NoTranscript EXCEPT !.path = path] : path \in OutputPaths}
    /\ promptSaved = FALSE
    /\ chatCalls = 0
    /\ execLog = <<>>
    /\ prev = NoPrevious
    /\ outstanding = <<>>
    /\ lastSent = <<>>
    /\ runs = <<>>
    /\ pipeline = NoPipeline
    /\ routing = NoRouting

\* save_output(messages, output_file), to its return or its exception
CallSaveOutput ==
    /\ entry = "save_output"
    /\ phase = "called"
    /\ transcript' = save_output(all_messages, transcript.path)
    /\ phase' = "returned"
    /\ UNCHANGED <<pipeline, routing, runs, entry, pc, max_iterations, iteration, messages, all_messages,
                   final_response, tool_calls, tool_idx, tool_results, fs, result,
                   promptSaved, chatCalls, execLog, prev, outstanding, lastSent>>

NextSave == CallSaveOutput

SpecSave == InitSave /\ [][NextSave]_vars

(***************************************************************************)
(* parse_tool_calls_from_text on its own: one call on any text of a few    *)
(* segments.                                                               *)
(***************************************************************************)
\* the most segments a text has
MaxSegments == 2

CallReadFile == Call("read_file", PathArgs("a.txt"))

CallBash == Call("bash", CommandArgs("ls"))

\* {"name": "write_file", "arguments": {"path": "a.txt", "content": "{}"}}:
\* the braces inside the arguments keep the regular expression of pattern 3
\* from matching
CallWriteBraces ==
    JsonObject({"name", "arguments"}, "write_file", WriteArgs("a.txt", <<"{", "}">>), FALSE)

\* {"name": "read_file"}
ObjectWithoutArguments == JsonObject({"name"}, "read_file", NoArgs, FALSE)

Segments ==
    {Prose("I will look at the file."), Fence(Malformed), Tag(Malformed),
     Bare(MalformedObject), Fence(JsonArray),
     Fence(ObjectWithoutArguments), Bare(ObjectWithoutArguments)}
    \cup {wrap[2] : wrap \in
            {<<c, Fence(c)>> : c \in {CallReadFile, CallBash, CallWriteBraces}}
            \cup {<<c, Tag(c)>> : c \in {CallReadFile, CallBash, CallWriteBraces}}
            \cup {<<c, Bare(c)>> : c \in {CallReadFile, CallBash, CallWriteBraces}}}

Texts == UNION {[1..k -> Segments] : k \in 0..MaxSegments}

InitParse ==
    /\ entry = "parse_tool_calls_from_text"
    /\ phase = "called"
    /\ pc = "NotStarted"
    /\ max_iterations = 0
    /\ iteration = 0
    /\ messages = <<>>
    /\ all_messages \in {<<AssistantMsg(text)>> : text \in Texts}
    /\ final_response = EmptyText
    /\ tool_calls = <<>>
    /\ tool_idx = 0
    /\ tool_results = <<>>
    /\ fs = InitialFs
    /\ result = NoOutcome
    /\ transcript = NoTranscript
    /\ promptSaved = FALSE
    /\ chatCalls = 0
    /\ execLog = <<>>
    /\ prev = NoPrevious
    /\ outstanding = <<>>
    /\ lastSent = <<>>
    /\ runs = <<>>
    /\ pipeline = NoPipeline
    /\ routing = NoRouting

\* tool_calls = parse_tool_calls_from_text(content)
CallParse ==
    /\ entry = "parse_tool_calls_from_text"
    /\ phase = "called"
    /\ tool_calls' = parse_tool_calls_from_text(all_messages[1].text)
    /\ phase' = "returned"
    /\ UNCHANGED <<pipeline, routing, runs, entry, pc, max_iterations, iteration, messages, all_messages,
                   final_response, tool_idx, tool_results, fs, result, transcript,
                   promptSaved, chatCalls, execLog, prev, outstanding, lastSent>>

NextParse == CallParse

SpecParse == InitParse /\ [][NextParse]_vars

(***************************************************************************)
(* Two run_agent_loop calls in progress at once (two workflow processes    *)
(* started side by side): each call has its own locals, the working        *)
(* directory is the one both use.  tool_edit_file opens the file once to   *)
(* read it and once more to write it, so a file operation of the other     *)
(* run can come between the two.                                           *)
(***************************************************************************)
MaxRunIter == 2

RunIds == {1, 2}

\* the two callers pass different prompts
PromptOf(r) == <<Prose(IF r = 1 THEN "/implement plan A" ELSE "/implement plan B")>>

\* what the model answers in a run names the plan of the run's prompt
Topic(r) == Prose(IF r = 1 THEN "Plan A:" ELSE "Plan B:")

\* each run edits its own part of a.txt
EditOf(r) ==
    IF r = 1
    THEN Call("edit_file", EditArgs("a.txt", <<"x", "y">>, <<"z", "y">>))
    ELSE Call("edit_file", EditArgs("a.txt", <<"y", "x">>, <<"y", "w">>))

RunResponses(r) ==
    {<<Topic(r)>>,
     <<Topic(r), Tag(EditOf(r))>>,
     <<Topic(r), Fence(Call("read_file", PathArgs("a.txt")))>>}

\* the content tool_edit_file has read and not yet written back
NotOpened == [taken |-> FALSE, file |-> NoFile]

\* the locals of one run_agent_loop call at its first test of the loop
RunLocals(r, max) ==
    [pc |-> LoopHead(0, max), max_iterations |-> max, iteration |-> 0,
     messages |-> InitialHistory(PromptOf(r)), all_messages |-> <<>>,
     final_response |-> EmptyText, tool_calls |-> <<>>, tool_idx |-> 0,
     tool_results |-> <<>>, chatCalls |-> 0, log |-> <<>>, opened |-> NotOpened]

HistoryOwner_ModuleLevel(r) == 1

\* messages and all_messages are lists the call itself creates: run r
\* appends to the lists of run r
HistoryOwner(r) == r

InitConcurrent ==
    /\ entry = "concurrent"
    /\ phase = "running"
    /\ pc = "NotStarted"
    /\ max_iterations = 0
    /\ iteration = 0
    /\ messages = <<>>
    /\ all_messages = <<>>
    /\ final_response = EmptyText
    /\ tool_calls = <<>>
    /\ tool_idx = 0
    /\ tool_results = <<>>
    /\ fs = InitialFs
    /\ result = NoOutcome
    /\ transcript = NoTranscript
    /\ promptSaved = FALSE
    /\ chatCalls = 0
    /\ execLog = <<>>
    /\ prev = NoPrevious
    /\ outstanding = <<>>
    /\ lastSent = <<>>
    /\ runs \in {[r \in RunIds |-> RunLocals(r, max[r])] : max \in [RunIds -> 0..MaxRunIter]}
    /\ pipeline = NoPipeline
    /\ routing = NoRouting

\* the variables of the single call, which the concurrent calls leave alone
soloVars ==
    <<entry, phase, pc, max_iterations, iteration, messages, all_messages,
      final_response, tool_calls, tool_idx, tool_results, result, transcript,
      promptSaved, chatCalls, execLog, prev, outstanding, lastSent, pipeline, routing>>

\* run r: one chat_with_ollama call that returns, and the loop body up to
\* the first tool call
RunChatOk(r) ==
    /\ entry = "concurrent"
    /\ runs[r].pc = "AwaitingModel"
    /\ \E content \in RunResponses(r) :
          LET calls == parse_tool_calls_from_text(content)
              o == HistoryOwner(r)
          IN  runs' =
                IF calls = <<>>
                THEN [runs EXCEPT ![r].chatCalls = @ + 1,
                                  ![r].final_response = content,
                                  ![r].pc = "Done",
                                  ![o].all_messages = AppendMessage(@, AssistantMsg(content))]
                ELSE [runs EXCEPT ![r].chatCalls = @ + 1,
                                  ![r].tool_calls = calls,
                                  ![r].tool_idx = 1,
                                  ![r].tool_results = <<>>,
                                  ![r].pc = "DispatchingTools",
                                  ![o].all_messages = AppendMessage(@, AssistantMsg(content)),
                                  ![o].messages = AppendMessage(@, AssistantMsg(content))]
    /\ UNCHANGED <<fs, soloVars>>

\* run r: one chat_with_ollama call that raises
RunChatFail(r) ==
    /\ entry = "concurrent"
    /\ runs[r].pc = "AwaitingModel"
    /\ runs' = [runs EXCEPT ![r].chatCalls = @ + 1, ![r].pc = AfterChatError]
    /\ UNCHANGED <<fs, soloVars>>

\* one execute_tool call of a run: the files as the executor read them,
\* the files at the moment it returned or wrote, and the files after
RunLogEntry(call, name, text, read, before, after) ==
    [call |-> call, name |-> name, result |-> text, read |-> read, before |-> before,
     after |-> after]

\* the rest of one pass of the for loop once execute_tool has returned
\* text, and of the turn after the last pass
AfterToolResult(rs, r, name, text) ==
    LET g == rs[r]
        o == HistoryOwner(r)
        results == Append(g.tool_results, ToolResultEntry(name, text))
        last == LastPass(g.tool_calls, g.tool_idx)
    IN  [rs EXCEPT ![r].tool_results = results,
                   ![r].iteration = IF last THEN @ + 1 ELSE @,
                   ![r].pc = IF last THEN LoopHead(g.iteration + 1, g.max_iterations) ELSE @,
                   ![r].tool_idx = IF last THEN @ ELSE @ + 1,
                   ![o].all_messages = AppendMessage(@, ToolMsg(name, text)),
                   ![o].messages = IF last THEN AppendMessage(@, ResultsMsg(results)) ELSE @]

\* the executor of this call reads the file and writes it in two steps
ReadsThenWrites(tool_call) == HasGet(tool_call) /\ GetName(tool_call) = "edit_file"

\* run r: one pass of the for loop for a call whose executor touches the
\* files once
RunTool(r) ==
    /\ entry = "concurrent"
    /\ runs[r].pc = "DispatchingTools"
    /\ ~ReadsThenWrites(CurrentCall(runs[r].tool_calls, runs[r].tool_idx))
    /\ \E env \in LoopToolEnv :
          LET tool_call == CurrentCall(runs[r].tool_calls, runs[r].tool_idx)
              tool_name == GetName(tool_call)
              out == execute_tool(tool_name, GetArguments(tool_call), fs, env)
          IN  IF ~HasGet(tool_call) \/ out.raised
              THEN /\ runs' = [runs EXCEPT ![r].pc = "Raised"]
                   /\ UNCHANGED fs
              ELSE /\ fs' = out.fs
                   /\ runs' = AfterToolResult(
                                 [runs EXCEPT ![r].log =
                                     Append(@, RunLogEntry(tool_call, tool_name, out.text,
                                                           fs, fs, out.fs))],
                                 r, tool_name, out.text)
    /\ UNCHANGED soloVars

\* run r: tool_edit_file opens the file and reads it (lines 244-245)
RunEditRead(r) ==
    /\ entry = "concurrent"
    /\ runs[r].pc = "DispatchingTools"
    /\ ReadsThenWrites(CurrentCall(runs[r].tool_calls, runs[r].tool_idx))
    /\ ~runs[r].opened.taken
    /\ LET tool_call == CurrentCall(runs[r].tool_calls, runs[r].tool_idx)
           p == ResolvePath(GetArguments(tool_call).path)
       IN  runs' = [runs EXCEPT ![r].opened = [taken |-> TRUE, file |-> fs[p]]]
    /\ UNCHANGED <<fs, soloVars>>

\* run r: tool_edit_file checks the content it read, writes the rewritten
\* content (lines 247-258) and returns; the pass of the for loop ends
RunEditWrite(r) ==
    /\ entry = "concurrent"
    /\ runs[r].pc = "DispatchingTools"
    /\ ReadsThenWrites(CurrentCall(runs[r].tool_calls, runs[r].tool_idx))
    /\ runs[r].opened.taken
    /\ \E env \in LoopToolEnv :
          LET tool_call == CurrentCall(runs[r].tool_calls, runs[r].tool_idx)
              tool_name == GetName(tool_call)
              p == ResolvePath(GetArguments(tool_call).path)
              asRead == [fs EXCEPT ![p] = runs[r].opened.file]
              out == execute_tool(tool_name, GetArguments(tool_call), asRead, env)
          IN  IF out.raised
              THEN /\ runs' = [runs EXCEPT ![r].pc = "Raised", ![r].opened = NotOpened]
                   /\ UNCHANGED fs
              ELSE /\ fs' = [fs EXCEPT ![p] = IF out.fs[p] = asRead[p] THEN @ ELSE out.fs[p]]
                   /\ runs' = AfterToolResult(
                                 [runs EXCEPT ![r].opened = NotOpened,
                                              ![r].log =
                                     Append(@, RunLogEntry(tool_call, tool_name, out.text,
                                                           asRead, fs, fs'))],
                                 r, tool_name, out.text)
    /\ UNCHANGED soloVars

NextConcurrent ==
    \E r \in RunIds :
        \/ RunChatOk(r)
        \/ RunChatFail(r)
        \/ RunTool(r)
        \/ RunEditRead(r)
        \/ RunEditWrite(r)

SpecConcurrent == InitConcurrent /\ [][NextConcurrent]_vars

(***************************************************************************)
(* adw_sdlc.py: main() runs five scripts one after the other with          *)
(* subprocess.run and looks at the return code of each.                    *)
(***************************************************************************)
\* the scripts in the order main() runs them
Phases == <<"adw_plan.py", "adw_build.py", "adw_test.py", "adw_review.py", "adw_document.py">>

\* return codes of a child process: success, two failures, command not
\* found, interrupted, killed by signal 9
ExitCodes == {0, 1, 2, 127, 130, -9}

Description == "Add dark mode toggle to settings page"

\* sys.argv[2] when it is given
GivenAdwId == "a1b2c3d4"

\* what make_adw_id() may return
MadeAdwIds == {"0f9e8d7c", "5b6a7988"}

\* the arguments after "uv run <script>" of each phase
PhaseArgs(script, adw_id) ==
    CASE script = "adw_plan.py" -> <<Description, adw_id>>
      [] script = "adw_test.py" -> <<adw_id, "--skip-e2e">>
      [] OTHER -> <<adw_id>>

\* len(sys.argv): the script alone, with a description, with an adw-id too
ArgCounts == {1, 2, 3}

PhaseFailed_PositiveOnly(returncode) == returncode > 0

\* if <phase>.returncode != 0
PhaseFailed(returncode) == returncode # 0

InitSdlc ==
    /\ entry = "adw_sdlc"
    /\ phase = "called"
    /\ pc = "NotStarted"
    /\ max_iterations = 0
    /\ iteration = 0
    /\ messages = <<>>
    /\ all_messages = <<>>
    /\ final_response = EmptyText
    /\ tool_calls = <<>>
    /\ tool_idx = 0
    /\ tool_results = <<>>
    /\ fs = InitialFs
    /\ result = NoOutcome
    /\ transcript = NoTranscript
    /\ promptSaved = FALSE
    /\ chatCalls = 0
    /\ execLog = <<>>
    /\ prev = NoPrevious
    /\ outstanding = <<>>
    /\ lastSent = <<>>
    /\ runs = <<>>
    /\ routing = NoRouting
    /\ pipeline \in {[NoPipeline EXCEPT !.at = "called", !.argc = n] : n \in ArgCounts}

\* everything but the pipeline
notPipeline ==
    <<entry, phase, pc, max_iterations, iteration, messages, all_messages,
      final_response, tool_calls, tool_idx, tool_results, fs, result, transcript,
      promptSaved, chatCalls, execLog, prev, outstanding, lastSent, runs, routing>>

\* main() up to the first subprocess.run: the usage message and exit 1
\* when no description was given
SdlcMain ==
    /\ entry = "adw_sdlc"
    /\ pipeline.at = "called"
    /\ \E made \in MadeAdwIds :
          pipeline' = IF pipeline.argc < 2
                      THEN [pipeline EXCEPT !.at = "exited", !.exit = 1]
                      ELSE [pipeline EXCEPT !.at = "ready",
                                            !.adw_id = IF pipeline.argc > 2 THEN GivenAdwId
                                                       ELSE made]
    /\ UNCHANGED notPipeline

\* subprocess.run(<phase>_cmd) is called: the child process starts
StartPhase ==
    /\ entry = "adw_sdlc"
    /\ pipeline.at = "ready"
    /\ Len(pipeline.started) < Len(Phases)
    /\ LET script == Phases[Len(pipeline.started) + 1] IN
       pipeline' = [pipeline EXCEPT !.at = "running",
                                    !.started = Append(@, script),
                                    !.commands = Append(@, PhaseArgs(script, pipeline.adw_id))]
    /\ UNCHANGED notPipeline

\* the child process ends and main() tests its return code; after the last
\* phase main() returns and the interpreter exits with 0
PhaseExits ==
    /\ entry = "adw_sdlc"
    /\ pipeline.at = "running"
    /\ \E returncode \in ExitCodes :
          pipeline' =
            IF PhaseFailed(returncode)
            THEN [pipeline EXCEPT !.codes = Append(@, returncode), !.at = "exited", !.exit = 1]
            ELSE IF Len(pipeline.started) = Len(Phases)
            THEN [pipeline EXCEPT !.codes = Append(@, returncode), !.at = "exited", !.exit = 0]
            ELSE [pipeline EXCEPT !.codes = Append(@, returncode), !.at = "ready"]
    /\ UNCHANGED notPipeline

NextSdlc == SdlcMain \/ StartPhase \/ PhaseExits

SpecSdlc == InitSdlc /\ [][NextSdlc]_vars

(***************************************************************************)
(* tac-3 llm_processor.generate_sql: the choice of the generator that      *)
(* turns a request into SQL.  A generator either returns SQL or raises.    *)
(***************************************************************************)
Providers == {"ollama", "openai", "anthropic", "cursor-agent", "claude"}

\* request.llm_provider is None
NoProvider == "None"

\* what a request may carry as llm_provider: a provider, None, or a string
\* generate_sql does not know
RequestProviders == Providers \cup {NoProvider, "gemini"}

Queries == {"Show all users", "Show all orders"}

SchemaInfo == "{'tables': {}}"

\* os.environ.get(name) gives None for a variable that is not set
Unset == "<unset>"

KeyValues == {Unset, "", "test-key"}

\* "if openai_key:" -- None and the empty string are false
Truthy(value) == value # Unset /\ value # ""

\* subprocess.run(["which", cli], ..., timeout=2): return code 0, return
\* code 1, or an exception (the timeout, no "which" on the machine)
WhichOutcomes == {"found", "absent", "raises"}

Environments ==
    [openai_key : KeyValues, anthropic_key : KeyValues,
     which : [{"cursor-agent", "claude"} -> WhichOutcomes],
     failing : SUBSET Providers]

Requests == [query : Queries, llm_provider : RequestProviders]

\* the SQL a generator returns for a query
Generated(provider, query_text) == [by |-> provider, query_text |-> query_text]

NoSql == Generated("", "")

\* one call generate_sql_with_<provider>(query_text, schema_info)
GeneratorCall(provider, query_text, schema_info) ==
    [generator |-> provider, query_text |-> query_text, schema_info |-> schema_info]

\* how far generate_sql has got: done when a return statement was reached
\* or an exception is leaving the function
Routed(done, raised, calls, probes, sql) ==
    [done |-> done, raised |-> raised, calls |-> calls, probes |-> probes, sql |-> sql]

\* the generator raises: the OpenAI and Anthropic generators need their key
\* ("... environment variable not set"), and any generator can fail
GeneratorRaises(provider, env) ==
    \/ provider \in env.failing
    \/ provider = "openai" /\ ~Truthy(env.openai_key)
    \/ provider = "anthropic" /\ ~Truthy(env.anthropic_key)

\* return generate_sql_with_<provider>(request.query, schema_info)
CallGenerator(provider, request, schema_info, env, calls, probes) ==
    LET now == Append(calls, GeneratorCall(provider, request.query, schema_info)) IN
    IF GeneratorRaises(provider, env)
    THEN Routed(TRUE, TRUE, now, probes, NoSql)
    ELSE Routed(TRUE, FALSE, now, probes, Generated(provider, request.query))

\* try: "which" the CLI and, on return code 0, return what its generator
\* returns; except: pass -- whatever was raised inside the try block, by
\* the probe or by the generator, is dropped and the function goes on
TryCli(cli, request, schema_info, env, calls, probes) ==
    LET probed == Append(probes, cli) IN
    IF env.which[cli] = "found"
    THEN LET out == CallGenerator(cli, request, schema_info, env, calls, probed) IN
         IF out.raised THEN Routed(FALSE, FALSE, out.calls, probed, NoSql) ELSE out
    ELSE Routed(FALSE, FALSE, calls, probed, NoSql)

NamesProvider_UnlessKeySet(request, env) ==
    request.llm_provider \in Providers /\ ~Truthy(env.openai_key)

\* one of the five comparisons of request.llm_provider is true
NamesProvider(request, env) == request.llm_provider \in Providers

generate_sql(request, schema_info, env) ==
    IF NamesProvider(request, env)
    THEN CallGenerator(request.llm_provider, request, schema_info, env, <<>>, <<>>)
    ELSE IF Truthy(env.openai_key)
    THEN CallGenerator("openai", request, schema_info, env, <<>>, <<>>)
    ELSE IF Truthy(env.anthropic_key)
    THEN CallGenerator("anthropic", request, schema_info, env, <<>>, <<>>)
    ELSE LET cursor == TryCli("cursor-agent", request, schema_info, env, <<>>, <<>>) IN
         IF cursor.done THEN cursor
         ELSE LET claude == TryCli("claude", request, schema_info, env,
                                   cursor.calls, cursor.probes)
              IN  IF claude.done THEN claude
                  ELSE CallGenerator("ollama", request, schema_info, env,
                                     claude.calls, claude.probes)

NotRouted == Routed(FALSE, FALSE, <<>>, <<>>, NoSql)

InitSql ==
    /\ entry = "generate_sql"
    /\ phase = "called"
    /\ pc = "NotStarted"
    /\ max_iterations = 0
    /\ iteration = 0
    /\ messages = <<>>
    /\ all_messages = <<>>
    /\ final_response = EmptyText
    /\ tool_calls = <<>>
    /\ tool_idx = 0
    /\ tool_results = <<>>
    /\ fs = InitialFs
    /\ result = NoOutcome
    /\ transcript = NoTranscript
    /\ promptSaved = FALSE
    /\ chatCalls = 0
    /\ execLog = <<>>
    /\ prev = NoPrevious
    /\ outstanding = <<>>
    /\ lastSent = <<>>
    /\ runs = <<>>
    /\ pipeline = NoPipeline
    /\ routing \in {[at |-> "called", request |-> request, schema_info |-> SchemaInfo,
                     env |-> env, out |-> NotRouted] :
                       request \in Requests, env \in Environments}

\* generate_sql(request, schema_info), to its return or its exception
CallGenerateSql ==
    /\ entry = "generate_sql"
    /\ routing.at = "called"
    /\ routing' = [routing EXCEPT
                     !.at = "returned",
                     !.out = generate_sql(routing.request, routing.schema_info, routing.env)]
    /\ UNCHANGED <<entry, phase, pc, max_iterations, iteration, messages, all_messages,
                   final_response, tool_calls, tool_idx, tool_results, fs, result,
                   transcript, promptSaved, chatCalls, execLog, prev, outstanding,
                   lastSent, runs, pipeline>>

NextSql == CallGenerateSql

SpecSql == InitSql /\ [][NextSql]_vars

(***************************************************************************)
(* Vocabulary of the properties.                                           *)
(***************************************************************************)
IsPrefix(s, t) == Len(s) <= Len(t) /\ SubSeq(t, 1, Len(s)) = s

Positions(hist, role) == {i \in 1..Len(hist) : hist[i].role = role}

NumRole(hist, role) == Cardinality(Positions(hist, role))

HasAssistant == Positions(all_messages, "assistant") # {}

\* the content of the last assistant message received in the run
LastAssistantContent ==
    LET P == Positions(all_messages, "assistant")
        last == CHOOSE i \in P : \A j \in P : j <= i
    IN  all_messages[last].text

\* the last message of the transcript is an assistant message that yields
\* no tool call
LastTurnHasNoCalls ==
    /\ all_messages # <<>>
    /\ all_messages[Len(all_messages)].role = "assistant"
    /\ parse_tool_calls_from_text(all_messages[Len(all_messages)].text) = <<>>

\* every chat-completion call of the run was answered, and every answer
\* requested at least one tool
ModelAlwaysRequestsTool ==
    /\ chatCalls = NumRole(all_messages, "assistant")
    /\ \A i \in Positions(all_messages, "assistant") :
          parse_tool_calls_from_text(all_messages[i].text) # <<>>

Returned == phase = "returned" /\ result.kind \in {"tuple", "response", "exception"}

(***************************************************************************)
(* C1.  For every max_iterations >= 0 and every sequence of model          *)
(* responses, one run of run_agent_loop issues at most max_iterations      *)
(* chat-completion calls.                                                  *)
(***************************************************************************)
C1_AtMostMaxIterationsCalls == chatCalls <= max_iterations

\* a run that requested tools on every turn and used up a cap of at least 2
C1_Witness ==
    /\ pc = "Truncated"
    /\ max_iterations >= 2
    /\ chatCalls = max_iterations
    /\ NumRole(all_messages, "tool") >= max_iterations

(***************************************************************************)
(* C2.  Every run of run_agent_loop eventually reaches a terminal state    *)
(* (Done, Truncated or transport failure), provided each chat-completion   *)
(* call and each tool execution returns; also when the model requests a    *)
(* tool on every turn.  Every step of the model is a call that has         *)
(* returned or raised, and FairSpec lets no run stop while it can step; a  *)
(* run in which execute_tool raised is outside the proviso.                *)
(***************************************************************************)
\* the call the loop was dispatching reached execute_tool, which raised
ToolExecutionRaised ==
    /\ pc = "Raised"
    /\ HasGet(CurrentCall(tool_calls, tool_idx))

C2_ReachesTerminalState ==
    (phase = "running") ~> (pc \in TerminalStates \/ ToolExecutionRaised)

(***************************************************************************)
(* C3.  When the assistant message of a turn yields zero tool calls, the   *)
(* run ends Done in that same turn: no tool is dispatched, no further      *)
(* chat-completion call is made, and the final answer returned is exactly  *)
(* that message's content; a plain-text first turn ends the run after      *)
(* exactly one chat-completion call.                                       *)
(***************************************************************************)
C3_DoneOnNoCalls ==
    LastTurnHasNoCalls =>
        /\ pc = "Done"
        /\ final_response = all_messages[Len(all_messages)].text
        /\ chatCalls = NumRole(all_messages, "assistant")
        /\ Len(all_messages) = 1 => chatCalls = 1
        /\ (phase = "returned") =>
              /\ result.success
              /\ result.output = all_messages[Len(all_messages)].text

C3_NothingAfterDone ==
    (pc = "Done") =>
        /\ pc' = "Done"
        /\ chatCalls' = chatCalls
        /\ execLog' = execLog
        /\ all_messages' = all_messages
        /\ messages' = messages
        /\ fs' = fs

C3_ZeroCallsEndRunDone == [](C3_DoneOnNoCalls) /\ [][C3_NothingAfterDone]_vars

\* the second turn of a run answers in plain text and the run has returned
C3_Witness ==
    /\ phase = "returned"
    /\ pc = "Done"
    /\ chatCalls = 2
    /\ final_response = TextAnswer
    /\ result.output = TextAnswer

(***************************************************************************)
(* C4.  With max_iterations = N >= 1 and a model that requests at least    *)
(* one tool call on every turn, the run ends Truncated after exactly N     *)
(* chat-completion calls and never makes an (N+1)-th.                      *)
(***************************************************************************)
C4_TruncatedAfterExactlyN ==
    (phase = "returned" /\ pc # "NotStarted" /\ max_iterations >= 1
        /\ ModelAlwaysRequestsTool)
    => (pc = "Truncated" /\ chatCalls = max_iterations)

(***************************************************************************)
(* C5.  When a run ends Truncated, the answer returned to the caller is    *)
(* the content of the last assistant message received in the run.          *)
(***************************************************************************)
C5_TruncatedReturnsLastAssistant ==
    (phase = "returned" /\ pc = "Truncated" /\ HasAssistant)
    => result.output = LastAssistantContent

(***************************************************************************)
(* C6.  The caller can tell the three terminal states apart from the run's *)
(* outcome: no two runs ending in different terminal states return the     *)
(* same success flag and answer text.  Stated over two successive runs of  *)
(* one caller through the same entry point.                                *)
(***************************************************************************)
C6_OutcomesTellTerminalStatesApart ==
    (phase = "returned" /\ pc \in TerminalStates /\ prev.terminal \in TerminalStates
        /\ prev.entry = entry /\ prev.terminal # pc)
    => ~(prev.success = result.success /\ prev.output = result.output)

(***************************************************************************)
(* C7.  A failed chat-completion call ends the run at once: after the      *)
(* failure the loop makes no further chat-completion call (no retry) and   *)
(* dispatches no tool.                                                     *)
(***************************************************************************)
\* some chat-completion call of the run brought no assistant message
SomeChatFailed == chatCalls > NumRole(all_messages, "assistant")

C7_FailureIsTerminal == SomeChatFailed => pc = "TransportFailure"

C7_NothingAfterFailure ==
    (pc = "TransportFailure") =>
        /\ pc' = "TransportFailure"
        /\ chatCalls' = chatCalls
        /\ execLog' = execLog
        /\ all_messages' = all_messages
        /\ messages' = messages
        /\ fs' = fs

C7_ChatFailureEndsRun == [](C7_FailureIsTerminal) /\ [][C7_NothingAfterFailure]_vars

\* the call of the second turn failed, after a first turn that ran a tool
C7_Witness ==
    /\ phase = "returned"
    /\ pc = "TransportFailure"
    /\ chatCalls = 2
    /\ Len(execLog) >= 1
    /\ max_iterations > chatCalls

(***************************************************************************)
(* C8.  When a chat-completion call fails during a run started through     *)
(* prompt_local_agent, the response returned to the caller marks the run   *)
(* as failed (success = false).                                            *)
(***************************************************************************)
C8_TransportFailureReportedAsFailed ==
    (entry = "prompt_local_agent" /\ phase = "returned" /\ pc = "TransportFailure")
    => (result.success = FALSE)

(***************************************************************************)
(* C9.  The tool-role messages of a turn correspond one-to-one to the      *)
(* tool calls extracted from that turn's assistant message, in extraction  *)
(* order: the i-th tool-role message of the turn carries the name and the  *)
(* result of the i-th extracted call, and no tool-role message exists      *)
(* without such a call.  Only the turn the loop is still dispatching (or   *)
(* that an exception ended, in which case no history is handed out) may    *)
(* have fewer tool-role messages than calls.                               *)
(***************************************************************************)
RECURSIVE TurnsMatch(_, _)
\* hist: the transcript from the start of a turn on; log: the executions
\* from that turn on
TurnsMatch(hist, log) ==
    IF hist = <<>> THEN log = <<>>
    ELSE LET calls == parse_tool_calls_from_text(hist[1].text)
             k == Min(Len(calls), Len(hist) - 1)
         IN  /\ hist[1].role = "assistant"
             /\ Len(log) >= k
             /\ \A i \in 1..k :
                   /\ hist[1 + i].role = "tool"
                   /\ hist[1 + i].name = GetName(calls[i])
                   /\ log[i].call = calls[i]
                   /\ log[i].name = hist[1 + i].name
                   /\ hist[1 + i].result = log[i].result
             /\ k < Len(calls) => pc \in {"DispatchingTools", "Raised"}
             /\ TurnsMatch(SubSeq(hist, k + 2, Len(hist)), SubSeq(log, k + 1, Len(log)))

C9_ToolMessagesMatchCalls ==
    /\ TurnsMatch(all_messages, execLog)
    /\ (Returned /\ result.kind = "tuple") => TurnsMatch(result.messages, execLog)
    /\ transcript.saved => TurnsMatch(transcript.json, execLog)

\* a returned history with a turn of two calls, write_file then read_file
C9_Witness ==
    /\ Returned
    /\ result.kind = "tuple"
    /\ \E i \in 1..Len(result.messages) :
          /\ i + 2 <= Len(result.messages)
          /\ result.messages[i].text = TextWriteRead
          /\ result.messages[i + 1].name = "write_file"
          /\ result.messages[i + 2].name = "read_file"
          /\ result.messages[i + 2].result.body = <<"z">>

(***************************************************************************)
(* C10.  Within a run both message sequences kept by the loop (the history *)
(* sent to the model and the recorded transcript) change only by           *)
(* appending: after every step the previous sequence is a prefix of the    *)
(* new one.                                                                *)
(***************************************************************************)
C10_AppendOnlyStep == IsPrefix(messages, messages') /\ IsPrefix(all_messages, all_messages')

C10_HistoriesAppendOnly == [][C10_AppendOnlyStep]_vars

\* both sequences have grown over three full turns
C10_Witness ==
    /\ Len(messages) >= 8
    /\ Len(all_messages) >= 6
    /\ iteration = 3

(***************************************************************************)
(* C11.  For every tool call extracted in a turn, also a call to a         *)
(* registered tool that lacks a required argument or carries an argument   *)
(* of the wrong type, dispatch produces a textual result and no exception  *)
(* leaves the dispatch: the loop is never ended by an exception raised     *)
(* while it dispatches a call to a registered tool.                        *)
(***************************************************************************)
C11_DispatchOfRegisteredToolNeverRaises ==
    ~(/\ pc = "Raised"
      /\ HasGet(CurrentCall(tool_calls, tool_idx))
      /\ GetName(CurrentCall(tool_calls, tool_idx)) \in ToolNames)

(***************************************************************************)
(* C12.  When a tool's result is an error text (read_file on a missing     *)
(* path, a bash command rejected by the deny-list, an edit_file with an    *)
(* ambiguous match), the text is recorded as a tool-role message, the run  *)
(* is not ended by it, and, if iterations remain, the next chat-completion *)
(* call is made with that result fed back to the model.                    *)
(***************************************************************************)
\* the j-th execute_tool call of the run returned an error text
ErrorResultAt(j) == IsErrorText(execLog[j].result)

\* the j-th tool-role message of the transcript
ToolMessage(j) ==
    LET P == Positions(all_messages, "tool")
        i == CHOOSE i \in P : Cardinality({k \in P : k <= i}) = j
    IN  all_messages[i]

\* the last thing recorded is an error result and its turn is over
TurnEndedOnErrorResult ==
    /\ execLog # <<>>
    /\ ErrorResultAt(Len(execLog))
    /\ all_messages[Len(all_messages)].role = "tool"
    /\ pc \notin {"DispatchingTools", "Raised"}

ChatCallOutstanding == outstanding # <<>> /\ Head(outstanding).kind = "chat"

C12_ErrorResultsAreFedBack ==
    /\ \A j \in 1..Len(execLog) :
          ErrorResultAt(j) =>
              /\ NumRole(all_messages, "tool") >= j
              /\ ToolMessage(j) = ToolMsg(execLog[j].name, execLog[j].result)
    /\ TurnEndedOnErrorResult =>
          LET fedBack == messages[Len(messages)]
              entry_ == ToolResultEntry(execLog[Len(execLog)].name,
                                        execLog[Len(execLog)].result)
          IN  /\ fedBack.role = "user"
              /\ fedBack.results # <<>>
              /\ fedBack.results[Len(fedBack.results)] = entry_
              /\ phase = "running" =>
                    IF iteration < max_iterations
                    THEN \/ pc = "AwaitingModel" /\ ENABLED StartChat
                         \/ pc = "AwaitingModel" /\ ChatCallOutstanding /\ lastSent = messages
                         \/ pc = "TransportFailure" /\ lastSent = messages
                    ELSE pc = "Truncated"

\* the second chat-completion call is outstanding, and the history it was
\* given ends with the results message that quotes the error text of the
\* first turn; the three error texts of the claim
C12_WitnessOf(kind) ==
    /\ pc = "AwaitingModel"
    /\ ChatCallOutstanding
    /\ Head(outstanding).idx = 2
    /\ Len(execLog) = 1
    /\ execLog[1].result.kind = kind
    /\ lastSent[Len(lastSent)].results = <<ToolResultEntry(execLog[1].name, execLog[1].result)>>

C12_Witness == C12_WitnessOf("string_ambiguous")

C12_WitnessMissingPath == C12_WitnessOf("file_not_found")

C12_WitnessBlocked == C12_WitnessOf("blocked")

(***************************************************************************)
(* C13.  execute_tool(name, arguments) with a name that is not one of the  *)
(* six registered names fails with the unknown-tool error and runs no      *)
(* executor (the files are as before, no process was spawned); with a      *)
(* registered name it runs that name's executor with the given arguments   *)
(* and returns its text result.                                            *)
(***************************************************************************)
\* the sentences each executor can return
ResultKindsOf(name) ==
    CASE name = "read_file" -> {"file_contents", "file_not_found", "exception_text"}
      [] name = "write_file" -> {"wrote", "exception_text"}
      [] name = "edit_file" ->
            {"edited", "file_not_found", "string_not_found", "string_ambiguous",
             "exception_text"}
      [] name = "bash" -> {"blocked", "timeout", "bash_output", "bash_no_output", "exception_text"}
      [] name = "glob_search" -> {"glob_none", "glob_found", "exception_text"}
      [] name = "grep_search" -> {"grep_none", "grep_found", "exception_text"}
      [] OTHER -> {}

\* execute_tool has been called on its own and is over
Executed == entry = "execute_tool" /\ phase = "returned"

C13_DispatchByRegisteredName ==
    Executed =>
        LET e == execLog[1] IN
        IF e.name \in ToolNames
        THEN /\ ~e.raised
             /\ e.result.kind \in ResultKindsOf(e.name)
        ELSE /\ ~e.raised
             /\ e.result = ResultText("unknown_tool", e.name, <<>>, 0, 0)
             /\ e.after = e.before
             /\ e.spawned = <<>>

(***************************************************************************)
(* C14.  A bash command whose literal string matches a deny-list pattern   *)
(* is never executed: no process is spawned, the file system is left       *)
(* unchanged, and the result is the "blocked for safety" error text; the   *)
(* string checked is the string passed to the shell, so no shell is ever   *)
(* given a string that matches.                                            *)
(***************************************************************************)
\* execute_tool was called for bash with a command string
BashExecuted ==
    /\ Executed
    /\ execLog[1].name = "bash"
    /\ "command" \in execLog[1].call.arguments.has
    /\ "command" \notin execLog[1].call.arguments.nonstr

C14_BlockedCommandNeverRuns ==
    BashExecuted =>
        LET e == execLog[1]
            command == e.call.arguments.command
        IN  /\ command \in BlockedCommands =>
                  /\ e.spawned = <<>>
                  /\ e.after = e.before
                  /\ e.result = ResultText("blocked", command, <<>>, 0, 0)
            /\ \A i \in 1..Len(e.spawned) :
                  /\ e.spawned[i].command = command
                  /\ e.spawned[i].command \notin BlockedCommands

\* "rm -rf /" was asked for while /proj/a.txt held three characters
C14_Witness ==
    /\ BashExecuted
    /\ execLog[1].call.arguments.command = "rm -rf /"
    /\ execLog[1].result.kind = "blocked"
    /\ Len(fs["/proj/a.txt"].content) = MaxLen

(***************************************************************************)
(* C15.  A bash command that matches no deny-list pattern is run in a      *)
(* process, and whenever that process exits with a nonzero code the result *)
(* text contains that exit code.                                           *)
(***************************************************************************)
\* the result text has an "Exit code: n" section
ReportsExitCode(text, n) ==
    /\ text.kind = "bash_output"
    /\ \E i \in 1..Len(text.body) : text.body[i] = "exit_code"
    /\ text.n = n

OccurrencePositions(old_string, content) ==
    {i \in 1..(Len(content) + 1) :
        /\ i + Len(old_string) - 1 <= Len(content)
        /\ SubSeq(content, i, i + Len(old_string) - 1) = old_string}

Occurrences(old_string, content) == Cardinality(OccurrencePositions(old_string, content))

\* execute_tool was called for edit_file with strings, on a file that exists
EditExecuted ==
    /\ Executed
    /\ execLog[1].name = "edit_file"
    /\ ~execLog[1].raised
    /\ execLog[1].call.arguments.nonstr = {}
    /\ FileExists(execLog[1].before, ResolvePath(execLog[1].call.arguments.path))

C16_EditRequiresExactlyOneOccurrence ==
    EditExecuted =>
        LET e == execLog[1]
            content == e.before[ResolvePath(e.call.arguments.path)].content
            n == Occurrences(e.call.arguments.old_string, content)
        IN  n # 1 =>
                /\ IsErrorText(e.result)
                /\ e.after = e.before
                /\ n > 1 => (e.result.kind = "string_ambiguous" /\ e.result.n = n)

(***************************************************************************)
(* C17.  For every assistant text that contains exactly one well-formed    *)
(* tool invocation (and otherwise prose), the extractor returns exactly    *)
(* one tool call, whose name and arguments are those of the embedded JSON, *)
(* whichever of the three conventions wraps it.                            *)
(***************************************************************************)
\* a JSON object with a name and an arguments key, wrapped in one of the
\* three conventions
WellFormedInvocation(seg) ==
    /\ seg.conv \in {"fence", "tag", "bare"}
    /\ seg.body.json = "object"
    /\ {"name", "arguments"} \subseteq seg.body.keys

Invocations(text) == {i \in 1..Len(text) : WellFormedInvocation(text[i])}

\* parse_tool_calls_from_text was called on its own and has returned
Parsed == entry = "parse_tool_calls_from_text" /\ phase = "returned"

ParsedText == all_messages[1].text

C17_OneInvocationYieldsOneCall ==
    (/\ Parsed
     /\ Cardinality(Invocations(ParsedText)) = 1
     /\ \A i \in 1..Len(ParsedText) : i \in Invocations(ParsedText) \/ ParsedText[i].conv = "prose")
    => LET i == CHOOSE i \in Invocations(ParsedText) : TRUE IN
       /\ Len(tool_calls) = 1
       /\ tool_calls[1].name = ParsedText[i].body.name
       /\ tool_calls[1].arguments = ParsedText[i].body.arguments

(***************************************************************************)
(* C18.  parse_tool_calls_from_text returns the tool calls in the order in *)
(* which they occur in the assistant text, whatever convention wraps each  *)
(* one: the sequence returned can be read off the text from left to right. *)
(* Stated for texts made of prose and well-formed invocations only.        *)
(***************************************************************************)
RECURSIVE IsSubsequence(_, _)
IsSubsequence(s, t) ==
    IF s = <<>> THEN TRUE
    ELSE IF t = <<>> THEN FALSE
    ELSE IF Head(s) = Head(t) THEN IsSubsequence(Tail(s), Tail(t))
    ELSE IsSubsequence(s, Tail(t))

\* the JSON values embedded in the text, from left to right
ValuesInTextOrder(text) == [i \in 1..Len(text) |-> Value(text[i].body)]

C18_CallsInTextualOrder ==
    (/\ Parsed
     /\ \A i \in 1..Len(ParsedText) : i \in Invocations(ParsedText) \/ ParsedText[i].conv = "prose")
    => IsSubsequence(tool_calls, ValuesInTextOrder(ParsedText))

(***************************************************************************)
(* C19.  Within a run at most one operation is outstanding at any time:    *)
(* the tool calls of a turn are executed one at a time in extraction       *)
(* order, each finishing before the next starts, and the next chat call    *)
(* starts only after all tool calls of the current turn have finished; two *)
(* chat-completion calls are never in flight together.                     *)
(***************************************************************************)
C19_OneOperationAtATime ==
    /\ Len(outstanding) <= 1
    /\ outstanding # <<>> =>
          LET op == Head(outstanding) IN
          IF op.kind = "tool"
          THEN /\ pc = "DispatchingTools"
               /\ op.idx = tool_idx
               /\ Len(tool_results) = op.idx - 1
          ELSE /\ pc = "AwaitingModel"
               /\ op.idx = chatCalls + 1
               /\ iteration > 0 => Len(tool_results) = Len(tool_calls)

\* the second tool call of a turn is running, the first has finished
C19_Witness ==
    /\ pc = "DispatchingTools"
    /\ Len(tool_calls) = 2
    /\ outstanding = <<Operation("tool", 2)>>
    /\ Len(tool_results) = 1

(***************************************************************************)
(* C20.  For a run started through prompt_local_agent the transcript is    *)
(* persisted (save_output is called, once, after the loop has exited)      *)
(* whichever terminal state the loop reached: Done, Truncated or transport *)
(* failure.                                                                *)
(***************************************************************************)
\* prompt_local_agent has returned from a run whose loop ended in `state'
ReturnedFrom(state) == entry = "prompt_local_agent" /\ phase = "returned" /\ pc = state

C20_TranscriptSavedOnceAfterEveryExit ==
    /\ \A state \in TerminalStates :
          ReturnedFrom(state) =>
              /\ transcript.saved
              /\ transcript.calls = 1
              /\ transcript.jsonl = all_messages
              /\ transcript.json = all_messages
    /\ transcript.calls > 0 =>
          /\ transcript.calls = 1
          /\ phase = "returned"
          /\ pc \in TerminalStates
          /\ outstanding = <<>>

\* the second chat-completion call failed after a turn that ran a tool, and
\* the transcript of that turn is on disk
C20_Witness ==
    /\ ReturnedFrom("TransportFailure")
    /\ transcript.calls = 1
    /\ Len(transcript.json) >= 2

C20_WitnessTruncated == ReturnedFrom("Truncated") /\ transcript.calls = 1 /\ Len(transcript.json) >= 2

C20_WitnessDone == ReturnedFrom("Done") /\ transcript.calls = 1 /\ Len(transcript.json) >= 3

(***************************************************************************)
(* C22.  For every caller-supplied output path, save_output leaves two     *)
(* files on disk: a line-delimited file with one JSON-encoded message per  *)
(* line and a JSON array file, both holding the same messages in the same  *)
(* order.                                                                  *)
(***************************************************************************)
\* save_output was called on its own and is over
Saved == entry = "save_output" /\ phase = "returned"

C22_TwoFilesWithTheSameMessages ==
    Saved =>
        LET lines == transcript.files[transcript.path]
            array == transcript.files[JsonFile(transcript.path)]
        IN  /\ ~transcript.raised
            /\ JsonFile(transcript.path) # transcript.path
            /\ lines.exists /\ lines.format = "jsonl"
            /\ array.exists /\ array.format = "json"
            /\ lines.messages = all_messages
            /\ array.messages = all_messages

(***************************************************************************)
(* C21.  The transcript persisted for a run is the run's full ordered      *)
(* message history: it contains, in the order they were produced, the      *)
(* initial user prompt, every assistant message, every tool-role message   *)
(* and every synthetic tool-result user message of the run.                *)
(***************************************************************************)
\* the persisted messages hold the assistant and tool-role messages in the
\* order the run produced them, and every user message of the history
HoldsFullHistory(persisted) ==
    /\ IsSubsequence(all_messages, persisted)
    /\ \A i \in 1..Len(messages) :
          messages[i].role = "user" => InSeq(messages[i], persisted)

C21_TranscriptIsFullHistory ==
    (entry = "prompt_local_agent" /\ transcript.saved) =>
        /\ HoldsFullHistory(transcript.jsonl)
        /\ HoldsFullHistory(transcript.json)

(***************************************************************************)
(* C23.  glob_search with n matching files reports the total n in its      *)
(* result text and lists min(n, 50) paths (for n = 60: reports 60, lists   *)
(* 50); with n = 0 it returns the "no files found" message.                *)
(***************************************************************************)
\* execute_tool was called for glob_search with a pattern string
GlobExecuted ==
    /\ Executed
    /\ execLog[1].name = "glob_search"
    /\ "pattern" \in execLog[1].call.arguments.has
    /\ "pattern" \notin execLog[1].call.arguments.nonstr

C23_GlobReportsAllListsAtMostFifty ==
    GlobExecuted =>
        LET e == execLog[1]
            n == e.matched
        IN  IF n = 0
            THEN e.result = ResultText("glob_none", e.call.arguments.pattern, <<>>, 0, 0)
            ELSE /\ e.result.kind = "glob_found"
                 /\ e.result.n = n
                 /\ e.result.m = IF n <= 50 THEN n ELSE 50

\* 60 files matched: 60 reported, 50 listed
C23_Witness ==
    /\ GlobExecuted
    /\ execLog[1].matched = 60
    /\ execLog[1].result.n = 60
    /\ execLog[1].result.m = 50

(***************************************************************************)
(* C24.  Two runs executing concurrently share no loop state: under every  *)
(* interleaving each run's history holds only messages produced in that    *)
(* run, and each run makes at most its own max_iterations chat-completion  *)
(* calls, whatever the other run does.                                     *)
(***************************************************************************)
\* run r executed a tool under this name and got this text
ExecutedIn(r, name, text) ==
    \E i \in 1..Len(runs[r].log) :
        runs[r].log[i].name = name /\ runs[r].log[i].result = text

\* msg is the system prompt, the prompt of run r, something the model said
\* in run r, or the result of tools run r executed
ProducedIn(r, msg) ==
    \/ msg = SystemMsg
    \/ msg = UserMsg(PromptOf(r))
    \/ msg.role = "assistant" /\ msg.text \in RunResponses(r)
    \/ msg.role = "tool" /\ ExecutedIn(r, msg.name, msg.result)
    \/ /\ msg.role = "user"
       /\ msg.results # <<>>
       /\ \A j \in 1..Len(msg.results) :
             ExecutedIn(r, msg.results[j].name, msg.results[j].result)

C24_RunsShareNoLoopState ==
    entry = "concurrent" =>
        \A r \in RunIds :
            /\ \A i \in 1..Len(runs[r].messages) : ProducedIn(r, runs[r].messages[i])
            /\ \A i \in 1..Len(runs[r].all_messages) : ProducedIn(r, runs[r].all_messages[i])
            /\ runs[r].chatCalls <= runs[r].max_iterations
            /\ runs[r].iteration <= runs[r].max_iterations

\* both runs are in the middle of their second turn, each with a tool
\* result of its own in its history, and their bounds differ
C24_Witness ==
    /\ entry = "concurrent"
    /\ runs[1].max_iterations = 1
    /\ runs[2].max_iterations = 2
    /\ runs[1].pc = "DispatchingTools"
    /\ runs[2].pc = "DispatchingTools"
    /\ runs[2].iteration = 1
    /\ runs[1].opened.taken
    /\ NumRole(runs[2].all_messages, "tool") = 1

(***************************************************************************)
(* C25.  The read-check-write of edit_file on one file is atomic: when two *)
(* concurrent runs each edit the same file, every successful edit is       *)
(* computed from the content it writes over (never from content the other  *)
(* edit has already replaced), so no successful edit is lost and the       *)
(* string it replaced occurs exactly once in the content written over.     *)
(***************************************************************************)
C25_EditIsAtomic ==
    entry = "concurrent" =>
        \A r \in RunIds : \A i \in 1..Len(runs[r].log) :
            LET e == runs[r].log[i]
                p == ResolvePath(e.call.arguments.path)
            IN  (e.name = "edit_file" /\ e.result.kind = "edited") =>
                    /\ e.read[p] = e.before[p]
                    /\ Occurrences(e.call.arguments.old_string, e.before[p].content) = 1

(***************************************************************************)
(* C26.  Pattern 3 (bare JSON object) never adds a call structurally equal *)
(* to a call already in the result list, so a call the fenced-block or tag *)
(* pattern has found is not returned a second time by pattern 3.           *)
(***************************************************************************)
\* the result list as patterns 1 and 2 leave it
FoundByFenceOrTag(text) ==
    LoadAll(SelectSeq(text, IsFenceSegment)) \o LoadAll(SelectSeq(text, IsTagSegment))

C26_BarePatternAddsNoEqualCall ==
    Parsed =>
        LET found == FoundByFenceOrTag(ParsedText) IN
        /\ IsPrefix(found, tool_calls)
        /\ \A i \in (Len(found) + 1)..Len(tool_calls) :
              \A j \in 1..(i - 1) : tool_calls[j] # tool_calls[i]

\* the same call in a fenced block and as a bare object, and a second
\* call as a bare object only: two calls returned
C26_Witness ==
    /\ Parsed
    /\ ParsedText = <<Fence(CallReadFile), Bare(CallBash)>>
    /\ tool_calls = <<Value(CallReadFile), Value(CallBash)>>
    /\ IsBareCandidate(ParsedText[1])

(***************************************************************************)
(* C27.  A candidate match whose content is not valid JSON is skipped      *)
(* without raising and without affecting the other candidates: every       *)
(* well-formed call among the matches of the same text is still extracted  *)
(* (the result is the one the text gives with the malformed matches taken  *)
(* out), and a text whose only candidates are malformed yields zero calls, *)
(* so the run ends Done.                                                   *)
(***************************************************************************)
\* the segment is a match of one of the three patterns
IsCandidate(seg) == IsFenceSegment(seg) \/ IsTagSegment(seg) \/ IsBareCandidate(seg)

IsMalformedCandidate(seg) == IsCandidate(seg) /\ seg.body.json = "malformed"

WithoutMalformed(text) == SelectSeq(text, LAMBDA seg : ~IsMalformedCandidate(seg))

OnlyMalformedCandidates(text) ==
    /\ \E i \in 1..Len(text) : IsCandidate(text[i])
    /\ \A i \in 1..Len(text) : IsCandidate(text[i]) => IsMalformedCandidate(text[i])

C27_MalformedCandidateIsSkipped ==
    Parsed =>
        /\ \A i \in 1..Len(ParsedText) :
              LET seg == ParsedText[i] IN
              (IsCandidate(seg) /\ WellFormedInvocation(seg)) =>
                  InSeq(Value(seg.body), tool_calls)
        /\ tool_calls = parse_tool_calls_from_text(WithoutMalformed(ParsedText))
        /\ OnlyMalformedCandidates(ParsedText) => tool_calls = <<>>

\* a malformed fenced block followed by a well-formed call in a tag: the
\* call is the one call returned
C27_Witness ==
    /\ Parsed
    /\ ParsedText = <<Fence(Malformed), Tag(CallBash)>>
    /\ tool_calls = <<Value(CallBash)>>

\* in a run: a response whose only candidates are malformed ends the run
C27_OnlyMalformedEndsDone ==
    (HasAssistant /\ OnlyMalformedCandidates(LastAssistantContent)) => pc = "Done"

C27_WitnessDone ==
    /\ HasAssistant
    /\ LastAssistantContent = TextMalformed
    /\ pc = "Done"
    /\ phase = "returned"
    /\ result.success

(***************************************************************************)
(* C28.  After a turn with n >= 1 tool calls exactly one synthetic         *)
(* user-role message is appended to the history, after all n executions    *)
(* and before the next chat-completion call, and it holds the n results in *)
(* extraction order; a turn with zero tool calls appends no such message.  *)
(* (A turn that an exception ends part-way has no n executions, and the    *)
(* run has no next step.)                                                  *)
(***************************************************************************)
\* the results message for the calls of one turn, given the executions
\* from that turn on
ResultsOf(calls, log) ==
    ResultsMsg([i \in 1..Len(calls) |-> ToolResultEntry(GetName(calls[i]), log[i].result)])

RECURSIVE ResultsFollowTurns(_, _)
\* hist: the history from an assistant message on; log: the executions
\* from that turn on
ResultsFollowTurns(hist, log) ==
    IF hist = <<>> THEN TRUE
    ELSE LET calls == parse_tool_calls_from_text(hist[1].text)
             n == Len(calls)
         IN  /\ hist[1].role = "assistant"
             /\ n >= 1
             /\ IF Len(hist) = 1
                THEN pc \in {"DispatchingTools", "Raised"} /\ Len(log) < n
                ELSE /\ Len(log) >= n
                     /\ \A i \in 1..n : log[i].call = calls[i]
                     /\ hist[2] = ResultsOf(calls, log)
                     /\ ResultsFollowTurns(SubSeq(hist, 3, Len(hist)),
                                           SubSeq(log, n + 1, Len(log)))

ResultsMessages(hist) == {i \in 1..Len(hist) : hist[i].role = "user" /\ hist[i].results # <<>>}

C28_OneResultsMessagePerToolTurn ==
    messages # <<>> =>
        /\ SubSeq(messages, 1, 2) = <<SystemMsg, UserMsg(Prompt)>>
        /\ ResultsFollowTurns(SubSeq(messages, 3, Len(messages)), execLog)
        /\ Cardinality(ResultsMessages(messages)) = iteration
        /\ pc \in TerminalStates => Len(messages) = 2 + 2 * iteration
        /\ ChatCallOutstanding =>
              /\ lastSent = messages
              /\ Len(lastSent) = 2 + 2 * iteration
              /\ iteration >= 1 => Len(lastSent) \in ResultsMessages(lastSent)

\* the second chat-completion call is outstanding; the history it was
\* given ends with the one results message of the first turn, which holds
\* the results of write_file and read_file in that order
C28_Witness ==
    /\ ChatCallOutstanding
    /\ Head(outstanding).idx = 2
    /\ Len(lastSent) = 4
    /\ lastSent[3] = AssistantMsg(TextWriteRead)
    /\ Len(lastSent[4].results) = 2
    /\ lastSent[4].results[1].name = "write_file"
    /\ lastSent[4].results[2].name = "read_file"

(***************************************************************************)
(* C29.  A bash command that exceeds the wall-clock timeout yields a       *)
(* textual timeout error as its tool result; the run is not ended by it    *)
(* and continues with the next step of the loop.                           *)
(***************************************************************************)
\* the j-th execute_tool call of the run ran a shell that was killed at
\* the timeout
TimedOutAt(j) ==
    /\ execLog[j].name = "bash"
    /\ execLog[j].spawned # <<>>
    /\ execLog[j].spawned[1].end.timedOut

TimeoutText == ResultText("timeout", "", <<>>, 120, 0)

\* the call the loop is at is bash with a command string
AtBashCommand ==
    /\ tool_calls # <<>>
    /\ tool_idx \in 1..Len(tool_calls)
    /\ HasGet(CurrentCall(tool_calls, tool_idx))
    /\ GetName(CurrentCall(tool_calls, tool_idx)) = "bash"
    /\ "command" \in GetArguments(CurrentCall(tool_calls, tool_idx)).has
    /\ "command" \notin GetArguments(CurrentCall(tool_calls, tool_idx)).nonstr

C29_BashTimeoutIsATextResult ==
    /\ pc = "Raised" => ~AtBashCommand
    /\ \A j \in 1..Len(execLog) :
          TimedOutAt(j) =>
              /\ ~execLog[j].raised
              /\ execLog[j].result = TimeoutText
              /\ NumRole(all_messages, "tool") >= j
              /\ ToolMessage(j) = ToolMsg("bash", TimeoutText)
              /\ (j = Len(execLog) /\ all_messages[Len(all_messages)].role = "tool"
                     /\ phase = "running") =>
                    \/ pc = "DispatchingTools" /\ tool_idx <= Len(tool_calls)
                    \/ /\ iteration < max_iterations
                       /\ pc = "AwaitingModel"
                       /\ ENABLED StartChat \/ (ChatCallOutstanding /\ lastSent = messages)
                    \/ /\ iteration < max_iterations
                       /\ pc = "TransportFailure"
                    \/ /\ iteration >= max_iterations
                       /\ pc = "Truncated"

\* the command of the first turn timed out, and the second chat-completion
\* call is outstanding with the timeout text in the history it was given
C29_Witness ==
    /\ Len(execLog) = 1
    /\ TimedOutAt(1)
    /\ pc = "AwaitingModel"
    /\ ChatCallOutstanding
    /\ Head(outstanding).idx = 2
    /\ lastSent[Len(lastSent)].results = <<ToolResultEntry("bash", TimeoutText)>>

(***************************************************************************)
(* C30.  When the extracted calls of one turn are write_file(p, c)         *)
(* followed by read_file(p), the read executes after the write has         *)
(* completed and its result holds exactly the content c just written,      *)
(* whatever p held before.                                                 *)
(***************************************************************************)
\* the arguments give key k a string value
HasString(args, k) == k \in args.has /\ k \notin args.nonstr

\* executions j and j + 1 are write_file(p, c) and read_file(p)
WriteThenReadAt(j) ==
    /\ j + 1 <= Len(execLog)
    /\ execLog[j].name = "write_file"
    /\ HasString(execLog[j].call.arguments, "path")
    /\ HasString(execLog[j].call.arguments, "content")
    /\ execLog[j + 1].name = "read_file"
    /\ HasString(execLog[j + 1].call.arguments, "path")
    /\ ResolvePath(execLog[j + 1].call.arguments.path)
          = ResolvePath(execLog[j].call.arguments.path)

C30_WitnessNewFile ==
    /\ Len(execLog) = 2
    /\ WriteThenReadAt(1)
    /\ ~FileExists(execLog[1].before, "/proj/missing.txt")
    /\ execLog[2].result.body = <<"x", "y">>
    /\ execLog[2].result.kind = "file_contents"

C32_PhasesInOrderUntilFirstFailure ==
    entry = "adw_sdlc" =>
        /\ IsPrefix(pipeline.started, Phases)
        /\ Len(pipeline.codes) <= Len(pipeline.started)
        /\ Len(pipeline.started) <= Len(pipeline.codes) + 1
        /\ \A k \in 1..Len(pipeline.started) :
              \A j \in 1..(k - 1) : pipeline.codes[j] = 0
        /\ \A j \in 1..Len(pipeline.codes) :
              pipeline.codes[j] # 0 =>
                  /\ pipeline.at = "exited"
                  /\ pipeline.exit = 1
                  /\ Len(pipeline.started) = j
        /\ (pipeline.at = "exited" /\ pipeline.exit = 0) =>
              /\ pipeline.started = Phases
              /\ pipeline.codes = [j \in 1..Len(Phases) |-> 0]

\* plan and build exited 0, test was killed by a signal: the pipeline has
\* exited with 1 and review was not started
C32_Witness ==
    /\ entry = "adw_sdlc"
    /\ pipeline.codes = <<0, 0, -9>>
    /\ pipeline.started = <<"adw_plan.py", "adw_build.py", "adw_test.py">>
    /\ pipeline.at = "exited"
    /\ pipeline.exit = 1

\* all five phases exited 0 and the pipeline exited 0
C32_WitnessComplete ==
    /\ entry = "adw_sdlc"
    /\ pipeline.started = Phases
    /\ pipeline.at = "exited"
    /\ pipeline.exit = 0

(***************************************************************************)
(* C33.  When request.llm_provider names a provider (ollama, openai,       *)
(* anthropic, cursor-agent, claude), generate_sql calls exactly that       *)
(* provider's generator, once, with the request's query and the schema,    *)
(* whatever API keys are set in the environment, and returns its result    *)
(* (or lets its exception through).                                        *)
(***************************************************************************)
\* generate_sql was called and has returned or raised
Routing == entry = "generate_sql" /\ routing.at = "returned"

Available(env, cli) == env.which[cli] = "found"

ByPriority(env) ==
    IF Truthy(env.openai_key) THEN "openai"
    ELSE IF Truthy(env.anthropic_key) THEN "anthropic"
    ELSE IF Available(env, "cursor-agent") THEN "cursor-agent"
    ELSE IF Available(env, "claude") THEN "claude"
    ELSE "ollama"

C34_OneGeneratorByPriority ==
    (Routing /\ routing.request.llm_provider \notin Providers) =>
        LET chosen == ByPriority(routing.env) IN
        /\ routing.out.calls =
              <<GeneratorCall(chosen, routing.request.query, routing.schema_info)>>
        /\ routing.out.raised <=> GeneratorRaises(chosen, routing.env)

(***************************************************************************)
(* C35.  A request that leaves llm_provider at its default ("openai"),     *)
(* with no API keys in the environment, is routed to cursor-agent when     *)
(* cursor-agent is available, and to claude when cursor-agent is not       *)
(* available but claude is.                                                *)
(***************************************************************************)
\* the default of QueryRequest.llm_provider
DefaultProvider == "openai"

C35_DefaultRequestFallsBackToCli ==
    (/\ Routing
     /\ routing.request.llm_provider = DefaultProvider
     /\ routing.env.openai_key = Unset
     /\ routing.env.anthropic_key = Unset) =>
        /\ Available(routing.env, "cursor-agent") =>
              /\ Len(routing.out.calls) = 1
              /\ routing.out.calls[1].generator = "cursor-agent"
        /\ (~Available(routing.env, "cursor-agent") /\ Available(routing.env, "claude")) =>
              /\ Len(routing.out.calls) = 1
              /\ routing.out.calls[1].generator = "claude"

(***************************************************************************)
(* C36.  Every value returned by parse_tool_calls_from_text is a           *)
(* well-formed tool call, a JSON object with a name and an arguments       *)
(* object, for all three conventions; hence the dispatch of the loop never *)
(* receives a value that is not such an object.                            *)
(***************************************************************************)
IsToolCall(value) == value.json = "object" /\ {"name", "arguments"} \subseteq value.keys

C36_EveryReturnedValueIsAToolCall ==
    Parsed => \A i \in 1..Len(tool_calls) : IsToolCall(tool_calls[i])

\* in a run: the value the for loop is at is always a tool call
C36_DispatchReceivesToolCalls ==
    (phase = "running" /\ pc \in {"DispatchingTools", "Raised"}) =>
        IsToolCall(CurrentCall(tool_calls, tool_idx))

(***************************************************************************)
(* C37.  At every chat-completion call the history sent to the model is    *)
(* one system message, then the user prompt, then zero or more (assistant, *)
(* user) pairs; so the k-th call of a run (k >= 1) sends exactly 2k        *)
(* messages, the last of which has role user, and the system prompt is the *)
(* same first message in every call.                                       *)
(***************************************************************************)
SentShape(sent) ==
    /\ Len(sent) >= 2
    /\ sent[1] = SystemMsg
    /\ sent[2] = UserMsg(Prompt)
    /\ \A i \in 3..Len(sent) :
          sent[i].role = IF i % 2 = 1 THEN "assistant" ELSE "user"
    /\ \A i \in 2..Len(sent) : sent[i].role # "system"
    /\ sent[Len(sent)].role = "user"

C37_HistorySentHasTwoKMessages ==
    /\ ChatCallOutstanding =>
          /\ SentShape(lastSent)
          /\ Len(lastSent) = 2 * Head(outstanding).idx
          /\ Head(outstanding).idx = chatCalls + 1
    /\ (lastSent # <<>> /\ ~ChatCallOutstanding) =>
          /\ SentShape(lastSent)
          /\ Len(lastSent) = 2 * chatCalls

\* the third chat-completion call is outstanding and was sent six messages
C37_Witness ==
    /\ ChatCallOutstanding
    /\ Head(outstanding).idx = 3
    /\ Len(lastSent) = 6
    /\ lastSent[3].role = "assistant"
    /\ lastSent[6].role = "user"

(***************************************************************************)
(* C38.  When the chat-completion call of turn k fails, the messages       *)
(* recorded in turns 1..k-1 (assistant and tool-role messages) are         *)
(* returned to the caller unchanged and are the ones persisted by          *)
(* prompt_local_agent; the failed turn adds no message.                    *)
(***************************************************************************)
C38_FailedTurnAddsNoMessage ==
    (pc = "AwaitingModel" /\ pc' = "TransportFailure") =>
        /\ all_messages' = all_messages
        /\ messages' = messages

C38_EarlierTurnsAreHandedOut ==
    pc = "TransportFailure" =>
        /\ NumRole(all_messages, "assistant") = chatCalls - 1
        /\ NumRole(all_messages, "tool") = Len(execLog)
        /\ TurnsMatch(all_messages, execLog)
        /\ (Returned /\ entry = "run_agent_loop") =>
              /\ result.kind = "tuple"
              /\ result.messages = all_messages
        /\ ReturnedFrom("TransportFailure") =>
              /\ transcript.saved
              /\ ~transcript.raised
              /\ transcript.jsonl = all_messages
              /\ transcript.json = all_messages

C38_FailureKeepsEarlierTurns ==
    [](C38_EarlierTurnsAreHandedOut) /\ [][C38_FailedTurnAddsNoMessage]_vars

\* prompt_local_agent has returned after the call of the second turn
\* failed; the first turn ran a tool, and its two messages are persisted
C38_Witness ==
    /\ ReturnedFrom("TransportFailure")
    /\ chatCalls = 2
    /\ Len(all_messages) = 2
    /\ all_messages[2].role = "tool"
    /\ transcript.json = all_messages

(***************************************************************************)
(* C39.  prompt_local_agent performs its checks before any work: if the    *)
(* Ollama service is unreachable, or the model is unavailable and pulling  *)
(* it fails, it returns success = false with no session id, and in that    *)
(* case no prompt is saved, no chat-completion call is made, no tool is    *)
(* executed and no transcript is written.                                  *)
(***************************************************************************)
\* prompt_local_agent has returned without entering the loop
ReturnedAtChecks == entry = "prompt_local_agent" /\ phase = "returned" /\ pc = "NotStarted"

\* the response carries the text of a failed check
ReportsFailedCheck ==
    /\ entry = "prompt_local_agent"
    /\ phase = "returned"
    /\ result.output \in {OllamaDownText, PullFailedText}

C39_FailedCheckDoesNoWork ==
    /\ ReturnedAtChecks => ReportsFailedCheck
    /\ ReportsFailedCheck =>
          /\ result.kind = "response"
          /\ ~result.success
          /\ result.session = ""
          /\ ~promptSaved
          /\ chatCalls = 0
          /\ outstanding = <<>>
          /\ lastSent = <<>>
          /\ execLog = <<>>
          /\ all_messages = <<>>
          /\ transcript = NoTranscript
          /\ fs = InitialFs
    /\ (entry = "prompt_local_agent" /\ phase = "returned" /\ promptSaved) =>
          ~ReportsFailedCheck

\* the pull of the model failed
C39_Witness ==
    /\ ReportsFailedCheck
    /\ result.output = PullFailedText
    /\ ~result.success

\* the service was unreachable
C39_WitnessOllamaDown ==
    /\ ReportsFailedCheck
    /\ result.output = OllamaDownText
    /\ ~result.success

====
